---------------------------- MODULE Spec2Model ----------------------------
(***************************************************************************)
(* wdgrep (src/src/bin/wdgrep/lib.rs): the match formatter find_in_text,   *)
(* the per-revision closure of search_dump_reader, the page extractor and  *)
(* the parallel search driver search_dump.                                 *)
(*                                                                         *)
(* Three specifications share this module:                                 *)
(*   SpecFmt  one call of the per-revision closure (title-only branch or   *)
(*            find_in_text, one loop iteration per step) on every text and *)
(*            every match sequence within the bounds;                      *)
(*   Spec     search_dump on a plain dump file: inline path or pooled      *)
(*            path, range workers, decompressors, the shared stdout writer;*)
(*   SpecRes  get_dump_files on a directory and an argument.               *)
(*                                                                         *)
(* Output is a sequence of tokens.  A text octet is a one-character        *)
(* string; "CYAN", "YELLOW", "RED" stand for the escape sequence           *)
(* termcolor writes for set_color (reset + foreground), "PLAIN" for the    *)
(* one it writes for a ColorSpec without foreground (reset).               *)
(***************************************************************************)
EXTENDS Integers, Sequences, FiniteSets, TLC

NL == "\n"

\* bounds of the formatter specification
MaxTextLen == 4

\* bounds of the driver specification
MaxPad == 12         \* the prolog before the first page takes 36 .. 36 + MaxPad octets
MaxThreads == 2      \* thread_count: None, 1 .. MaxThreads
NumCpus == 2         \* size of rayon's default pool (the logical CPUs)
PartLimit == 132     \* stands for the 500 MiB of search_dump, scaled to the model's files

TextBytes == {"a", "b", NL}
ColorTokens == {"CYAN", "YELLOW", "RED", "PLAIN"}

\* the title and the revision id the formatter is called with (tests::get_find_in_text_ansi_result)
FmtTitle == <<"T">>
FmtRevId == <<"7">>

VARIABLES
    \* ---- formatter (SpecFmt)
    color,        \* the BufferWriter's colour choice resolved: TRUE = escape sequences are written
    onlyTitle,    \* only_print_title_and_revision
    fText,        \* text: &[u8]
    fMatches,     \* what re.find_iter(text) yields, in order: records [s, e] for [m.start(), m.end())
    fIdx,         \* number of matches the iterator has yielded so far
    fSt,          \* [buf, last_match_end, first_match, panic]: the locals of find_in_text and the buffer
    fPc,          \* "loop" | "done"
    \* ---- driver (Spec)
    files,        \* dump_files, in the order given: [kind: "plain" | "7z" | "bz2", evs: the XML events]
    threadCount,  \* search_options.thread_count: 0 for None, else the number
    restrict,     \* search_options.restrict_namespaces: NoFilter for None, else a set of strings
    pc,           \* where search_dump is: "start" | "inline" | "pool" | "returned"
    fileSt,       \* pooled path, per file: "pending" | "split" | "scan" | "ok" | "err" | "panic"
    work,         \* the range workers: <<file, part>> -> locals of search_dump_reader
    stdout,       \* what the shared BufferWriter has written: tokens [t, rv]
    lock,         \* the worker inside stdout_writer.print (it holds the stream lock), or NoWorker
    result,       \* what search_dump returned: "none" | "ok" | "err" | "panic"
    regex,        \* the pattern `re` was built from: "a" or "" (the empty pattern)
    child,        \* pooled path, per file: the decompressor spawned for it (NoChild for none)
    pool,         \* threads of rayon's global pool of the process, 0 while it is not built
    call,         \* "first" | "second": which call of search_dump in the process this is
    compressed_file_found,   \* the AtomicBool of the call
    errlog,       \* the errors raised in the call, in the order in which they were raised
    error,        \* the error search_dump returned, NoError for none
    \* ---- dump-file resolver (SpecRes)
    fs,           \* the file system get_dump_files sees, and its argument
    dump_files,   \* the Vec<String> being built (file names of one directory)
    total_size,   \* the sum that is returned with the list
    di,           \* `i` of the de-duplication loop
    unread,       \* the directory entries read_dir has not yet yielded
    rpc,          \* "metadata" | "read_dir" | "sort" | "dedup" | "check" | "returned"
    rres,         \* what get_dump_files returned: [tag, list, size]
    \* ---- work partitioner (SpecPart)
    plen,         \* `len` of a plain file
    pranges,      \* the ranges [start, end) handed to search_dump_part so far, in order
    \* ---- the closure of a compressed file and its decompressor (SpecPipe)
    prog,         \* what the decompressor still writes, in order: "out" | "err", one chunk each
    outPipe,      \* chunks in the pipe of the child's stdout
    errPipe,      \* chunks in the pipe of the child's stderr
    cstate,       \* the child: "running" | "exited" (its ends of the pipes are closed)
    wstate        \* the closure: "scan" (search_dump_reader) | "wait" (wait_with_output) | "done"

fvars == <<fText, fMatches, fIdx, fSt, fPc>>
dvars == <<files, threadCount, restrict, pc, fileSt, work, stdout, lock, result, regex, child,
           pool, call, compressed_file_found, errlog, error>>
rvars == <<fs, dump_files, total_size, di, unread, rpc, rres>>
pvars == <<plen, pranges>>
cvars == <<prog, outPipe, errPipe, cstate, wstate>>
vars == <<color, onlyTitle, fText, fMatches, fIdx, fSt, fPc,
          files, threadCount, restrict, pc, fileSt, work, stdout, lock, result, regex, child,
          pool, call, compressed_file_found, errlog, error,
          fs, dump_files, total_size, di, unread, rpc, rres, plen, pranges,
          prog, outPipe, errPipe, cstate, wstate>>

\* the partitioner is not running
PartIdle == plen = 0 /\ pranges = <<>>

\* no decompressor is running
PipeIdle ==
    prog = <<>> /\ outPipe = 0 /\ errPipe = 0 /\ cstate = "none" /\ wstate = "idle"

\* the resolver is not running
ResIdle ==
    /\ fs = <<>> /\ dump_files = <<>> /\ total_size = 0 /\ di = 0 /\ unread = {}
    /\ rpc = "idle" /\ rres = [tag |-> "none"]

-----------------------------------------------------------------------------
(* sequences *)

\* text[a..b] of Rust: the octets at 0-based positions a .. b-1
Slice(text, a, b) == SubSeq(text, a + 1, b)

\* a slice index Rust accepts; anything else panics
SliceOK(text, a, b) == 0 <= a /\ a <= b /\ b <= Len(text)

\* an octet that is not valid UTF-8
InvalidByte == "\\xFF"

\* simdutf8::basic::from_utf8(bytes).is_ok()
FromUtf8Ok(bytes) == \A k \in 1..Len(bytes) : bytes[k] # InvalidByte

\* memchr(b'\n', s): 0-based position of the first newline of s, -1 for None
Memchr(s) ==
    IF \E i \in 1..Len(s) : s[i] = NL
    THEN (CHOOSE i \in 1..Len(s) : s[i] = NL /\ \A j \in 1..(i - 1) : s[j] # NL) - 1
    ELSE -1

\* memrchr(b'\n', s): 0-based position of the last newline of s, -1 for None
Memrchr(s) ==
    IF \E i \in 1..Len(s) : s[i] = NL
    THEN (CHOOSE i \in 1..Len(s) : s[i] = NL /\ \A j \in (i + 1)..Len(s) : s[j] # NL) - 1
    ELSE -1

-----------------------------------------------------------------------------
(* regex::bytes::Regex::find_iter, as the set of match sequences it can yield *)

\* The iterator searches from the end of the previous match (one past it after an
\* empty match) and drops an empty match that starts where the previous match
\* ended.  at = where the next search starts, lastEnd = end of the previous match
\* (-1 before the first), n = len(text).
RECURSIVE MatchSeqsFrom(_, _, _)
MatchSeqsFrom(at, lastEnd, n) ==
    {<<>>} \cup
    UNION { { <<[s |-> s, e |-> e]>> \o rest :
                rest \in MatchSeqsFrom(IF s = e THEN e + 1 ELSE e, e, n) } :
            <<s, e>> \in { p \in (at..n) \X (at..n) :
                            p[1] <= p[2] /\ ~(p[1] = p[2] /\ p[2] = lastEnd) } }

FindIter(text) == MatchSeqsFrom(0, -1, Len(text))

\* re.is_match(text)
IsMatch(ms) == ms # <<>>

RECURSIVE SeqsUpTo(_, _)
SeqsUpTo(S, n) ==
    IF n = 0 THEN {<<>>}
    ELSE LET shorter == SeqsUpTo(S, n - 1)
         IN  shorter \cup { Append(t, x) : t \in { u \in shorter : Len(u) = n - 1 }, x \in S }

Texts == SeqsUpTo(TextBytes, MaxTextLen)

-----------------------------------------------------------------------------
(* the match formatter *)

\* set_color(buffer, c): nothing is written when colours are off
SetColor(buf, c) == IF color THEN Append(buf, c) ELSE buf

\* mutant: the reset is forgotten
SetPlain_Forgotten(buf) == buf

\* set_plain(buffer)
SetPlain(buf) == IF color THEN Append(buf, "PLAIN") ELSE buf

\* find_in_text, "print title once": the header line; its newline is written by
\* buffer_writeln! before the colour is reset
Header(buf, title, rev) ==
    SetPlain((SetColor(SetPlain(SetColor(buf, "CYAN") \o title) \o <<"@">>, "YELLOW") \o rev) \o <<NL>>)

\* the locals of find_in_text before the first iteration
\* (err: a from_utf8(..)? has returned an error and find_in_text has returned it)
FmtStart(buf) ==
    [buf |-> buf, last_match_end |-> 0, first_match |-> TRUE, panic |-> FALSE, err |-> FALSE]

\* mutant: the trailing newline of a match is not cut off
ActualMatchEnd_NoTrim(text, m) == m.e

\* mutant: the end is moved before a preceding newline for a zero-width match too
ActualMatchEnd_AlwaysTrim(text, m) ==
    IF m.e >= 1 /\ text[m.e] = NL THEN m.e - 1 ELSE m.e

\* "don't print extra newline and the following line if match end with \n"
ActualMatchEnd(text, m) ==
    IF m.s < m.e /\ text[m.e] = NL THEN m.e - 1 ELSE m.e

\* the text between the previous match and this one
\* (needs last_match_end <= m.start(), else the slice panics)
BeforeMatch(st, text, m) ==
    LET last == st.last_match_end
        gap  == Slice(text, last, m.s)
        r    == Memrchr(gap)
        f    == Memchr(gap)
        line == Slice(text, last + r + 1, m.s)
    IN  IF r = -1
        THEN \* match starting on same line that the last match ended
             IF FromUtf8Ok(gap)
             THEN [buf |-> st.buf \o gap, panic |-> FALSE, err |-> FALSE]
             ELSE [buf |-> st.buf, panic |-> FALSE, err |-> TRUE]
        ELSE \* match starting on a new line
             IF st.first_match
             THEN IF FromUtf8Ok(line)
                  THEN [buf |-> st.buf \o line, panic |-> FALSE, err |-> FALSE]
                  ELSE [buf |-> st.buf, panic |-> FALSE, err |-> TRUE]
             ELSE IF f = -1
                  THEN \* "Memchr/Memrchr inconsistency"
                       [buf |-> st.buf, panic |-> TRUE, err |-> FALSE]
                  ELSE IF ~FromUtf8Ok(Slice(text, last, last + f))
                       THEN [buf |-> st.buf, panic |-> FALSE, err |-> TRUE]
                       ELSE IF ~FromUtf8Ok(line)
                            THEN [buf |-> (st.buf \o Slice(text, last, last + f)) \o <<NL>>,
                                  panic |-> FALSE, err |-> TRUE]
                            ELSE [buf |-> ((st.buf \o Slice(text, last, last + f)) \o <<NL>>)
                                              \o line,
                                  panic |-> FALSE, err |-> FALSE]

\* mutant: the header is written for every match, not only the first
LoopBody_HeaderEveryMatch(st, title, rev, text, m) ==
    LET st0 == [st EXCEPT !.buf = Header(st.buf, title, rev)]
        bm  == BeforeMatch(st0, text, m)
        ae  == ActualMatchEnd(text, m)
    IN  [buf            |-> SetPlain(SetColor(bm.buf, "RED") \o Slice(text, m.s, ae)),
         last_match_end |-> ae,
         first_match    |-> FALSE,
         panic          |-> bm.panic,
         err            |-> FALSE]

\* mutant: a zero-width match is passed over
LoopBody_SkipEmptyMatch(st, title, rev, text, m) ==
    IF m.s = m.e THEN st
    ELSE LET st0 == IF st.first_match
                    THEN [st EXCEPT !.buf = Header(st.buf, title, rev)]
                    ELSE st
             bm  == BeforeMatch(st0, text, m)
             ae  == ActualMatchEnd(text, m)
         IN  [buf            |-> SetPlain(SetColor(bm.buf, "RED") \o Slice(text, m.s, ae)),
              last_match_end |-> ae,
              first_match    |-> FALSE,
              panic          |-> bm.panic,
              err            |-> FALSE]

\* mutant: last_match_end is set one past the effective end of the match
LoopBody_LastEndPastMatch(st, title, rev, text, m) ==
    IF st.err THEN st
    ELSE IF st.panic \/ ~SliceOK(text, st.last_match_end, m.s) \/ ~SliceOK(text, m.s, m.e)
          \/ ~SliceOK(text, m.s, ActualMatchEnd(text, m))
    THEN [st EXCEPT !.panic = TRUE]
    ELSE LET st0 == IF st.first_match
                    THEN [st EXCEPT !.buf = Header(st.buf, title, rev)]
                    ELSE st
             bm  == BeforeMatch(st0, text, m)
             ae  == ActualMatchEnd(text, m)
         IN  IF bm.panic
             THEN [st0 EXCEPT !.panic = TRUE]
             ELSE IF bm.err
             THEN [st0 EXCEPT !.buf = bm.buf, !.err = TRUE]
             ELSE IF ~FromUtf8Ok(Slice(text, m.s, ae))
             THEN [st0 EXCEPT !.buf = SetColor(bm.buf, "RED"), !.err = TRUE]
             ELSE [buf            |-> SetPlain(SetColor(bm.buf, "RED") \o Slice(text, m.s, ae)),
                   last_match_end |-> ae + 1,
                   first_match    |-> FALSE,
                   panic          |-> FALSE,
                   err            |-> FALSE]

\* one iteration of `for m in re.find_iter(text)`
LoopBody(st, title, rev, text, m) ==
    IF st.err THEN st
    ELSE IF st.panic \/ ~SliceOK(text, st.last_match_end, m.s) \/ ~SliceOK(text, m.s, m.e)
          \/ ~SliceOK(text, m.s, ActualMatchEnd(text, m))
    THEN [st EXCEPT !.panic = TRUE]
    ELSE LET st0 == IF st.first_match
                    THEN [st EXCEPT !.buf = Header(st.buf, title, rev)]
                    ELSE st
             bm  == BeforeMatch(st0, text, m)
             ae  == ActualMatchEnd(text, m)
         IN  IF bm.panic
             THEN [st0 EXCEPT !.panic = TRUE]
             ELSE IF bm.err
             THEN [st0 EXCEPT !.buf = bm.buf, !.err = TRUE]
             ELSE IF ~FromUtf8Ok(Slice(text, m.s, ae))
             THEN [st0 EXCEPT !.buf = SetColor(bm.buf, "RED"), !.err = TRUE]
             ELSE [buf            |-> SetPlain(SetColor(bm.buf, "RED") \o Slice(text, m.s, ae)),
                   last_match_end |-> ae,
                   first_match    |-> FALSE,
                   panic          |-> FALSE,
                   err            |-> FALSE]

\* mutant: the rest of the last matching line is dropped
FinishBlock_NoRest(st, text) ==
    IF st.panic \/ st.err \/ st.first_match THEN st
    ELSE [st EXCEPT !.buf = (st.buf \o <<NL>>) \o <<NL>>]

\* after the loop: "print rest of last matching line", "separate from next match"
FinishBlock(st, text) ==
    IF st.panic \/ st.err \/ st.first_match
    THEN st
    ELSE LET last == st.last_match_end
             f    == Memchr(Slice(text, last, Len(text)))
             rest == IF f = -1 THEN Slice(text, last, Len(text)) ELSE Slice(text, last, last + f)
         IN  IF FromUtf8Ok(rest)
             THEN [st EXCEPT !.buf = ((st.buf \o rest) \o <<NL>>) \o <<NL>>]
             ELSE [st EXCEPT !.err = TRUE]

RECURSIVE FindLoop(_, _, _, _, _, _)
FindLoop(st, title, rev, text, ms, i) ==
    IF i > Len(ms) THEN st
    ELSE FindLoop(LoopBody(st, title, rev, text, ms[i]), title, rev, text, ms, i + 1)

\* find_in_text(buffer, title, revision_id, text, re), ms = re.find_iter(text)
FindInText(buf, title, rev, text, ms) ==
    FinishBlock(FindLoop(FmtStart(buf), title, rev, text, ms, 1), text)

\* the title-only branch of the closure in search_dump_reader
TitleOnly(buf, title, rev, ms) ==
    IF IsMatch(ms)
    THEN SetPlain(SetColor(SetPlain(SetColor(buf, "CYAN") \o title) \o <<"@">>, "YELLOW") \o rev)
    ELSE buf

-----------------------------------------------------------------------------
(* SpecFmt: one revision through the closure of search_dump_reader *)

DriverIdle ==
    /\ files = <<>> /\ threadCount = 0 /\ restrict = [some |-> FALSE, ns |-> {}] /\ pc = "idle"
    /\ fileSt = <<>> /\ work = <<>> /\ stdout = <<>> /\ lock = <<>> /\ result = "none"
    /\ regex = "a" /\ child = <<>>
    /\ pool = 0 /\ call = "first" /\ compressed_file_found = FALSE /\ errlog = <<>>
    /\ error = [e |-> "none"]

FmtInit ==
    /\ DriverIdle
    /\ ResIdle
    /\ PartIdle
    /\ PipeIdle
    /\ color \in BOOLEAN
    /\ onlyTitle \in BOOLEAN
    /\ fText \in Texts
    /\ fMatches \in FindIter(fText)
    /\ fIdx = 0
    /\ fSt = FmtStart(<<>>)
    /\ fPc = "loop"

\* only_print_title_and_revision: is_match and the one header
FmtTitleOnly ==
    /\ fPc = "loop" /\ onlyTitle
    /\ fSt' = [fSt EXCEPT !.buf = TitleOnly(fSt.buf, FmtTitle, FmtRevId, fMatches)]
    /\ fPc' = "done"
    /\ UNCHANGED <<color, onlyTitle, fText, fMatches, fIdx>>
    /\ UNCHANGED <<dvars, rvars, pvars, cvars>>

\* find_in_text: the iterator yields the next match and the loop body runs
FmtIter ==
    /\ fPc = "loop" /\ ~onlyTitle
    /\ fIdx < Len(fMatches)
    /\ fSt' = LoopBody(fSt, FmtTitle, FmtRevId, fText, fMatches[fIdx + 1])
    /\ fIdx' = fIdx + 1
    /\ UNCHANGED <<color, onlyTitle, fText, fMatches, fPc>>
    /\ UNCHANGED <<dvars, rvars, pvars, cvars>>

\* find_in_text: the iterator is exhausted; the rest of the last line and the separator
FmtFinish ==
    /\ fPc = "loop" /\ ~onlyTitle
    /\ fIdx = Len(fMatches)
    /\ fSt' = FinishBlock(fSt, fText)
    /\ fPc' = "done"
    /\ UNCHANGED <<color, onlyTitle, fText, fMatches, fIdx>>
    /\ UNCHANGED <<dvars, rvars, pvars, cvars>>

FmtNext == FmtTitleOnly \/ FmtIter \/ FmtFinish

SpecFmt == FmtInit /\ [][FmtNext]_vars

-----------------------------------------------------------------------------
(* reading a block *)

IsPlainByte(t) == t \notin ColorTokens

\* the block with the colour sequences removed
Strip(buf) == SelectSeq(buf, IsPlainByte)

Count(buf, t) == Cardinality({ i \in 1..Len(buf) : buf[i] = t })

IsPrefix(p, q) == Len(p) <= Len(q) /\ SubSeq(q, 1, Len(p)) = p

\* the header line without colours: title@revid and its newline
HeaderLine == ((FmtTitle \o <<"@">>) \o FmtRevId) \o <<NL>>

\* index in buf of the k-th RED token
RedAt(buf, k) ==
    CHOOSE i \in 1..Len(buf) :
        buf[i] = "RED" /\ Cardinality({ j \in 1..i : buf[j] = "RED" }) = k

\* index of the first PLAIN token after index i
PlainAfter(buf, i) ==
    CHOOSE p \in (i + 1)..Len(buf) :
        buf[p] = "PLAIN" /\ \A q \in (i + 1)..(p - 1) : buf[q] # "PLAIN"

\* what is written between the k-th red sequence and the plain sequence after it
RedSpan(buf, k) ==
    LET i == RedAt(buf, k) IN SubSeq(buf, i + 1, PlainAfter(buf, i) - 1)

\* 0-based start of the line position p is on: one past the nearest newline before p
LineStartOf(text, p) ==
    LET before == { i \in 1..p : text[i] = NL }
    IN  IF before = {} THEN 0 ELSE CHOOSE i \in before : \A j \in before : j <= i

\* 0-based position of the newline ending the line that starts at ls, or len(text)
LineEndOf(text, ls) ==
    LET after == { i \in (ls + 1)..Len(text) : text[i] = NL }
    IN  IF after = {} THEN Len(text) ELSE (CHOOSE i \in after : \A j \in after : i <= j) - 1

\* the line starts of a text, the (possibly empty) line after a final newline included
LineStarts(text) == {0} \cup { i : i \in { j \in 1..Len(text) : text[j] = NL } }

\* a line contains (part of) a match; a zero-width match is on the line it stands in
Touches(text, m, ls) ==
    LET le == LineEndOf(text, ls)
    IN  IF m.s < m.e THEN m.s <= le /\ ls < m.e ELSE ls <= m.s /\ m.s <= le

RECURSIVE MatchedLines(_, _, _)
MatchedLines(text, ms, ls) ==
    LET le   == LineEndOf(text, ls)
        this == IF \E k \in 1..Len(ms) : Touches(text, ms[k], ls)
                THEN Slice(text, ls, le) \o <<NL>>
                ELSE <<>>
    IN  IF le >= Len(text) THEN this ELSE this \o MatchedLines(text, ms, le + 1)

LineMode == ~onlyTitle
FmtDone == fPc = "done"

-----------------------------------------------------------------------------
(* claims about the formatter, checked under SpecFmt *)

\* C4: in line-oriented mode a revision with at least one match gets exactly one
\* header line title@revid, written before the first match and never repeated by a
\* later match; a revision without a match gets nothing at all.
C4_OneHeaderPerMatchingRevision ==
    LineMode =>
        /\ ~fSt.panic
        /\ (fIdx = 0 /\ ~FmtDone) => fSt.buf = <<>>
        /\ (FmtDone /\ fMatches = <<>>) => fSt.buf = <<>>
        /\ fIdx >= 1 =>
              /\ IsPrefix(HeaderLine, Strip(fSt.buf))
              /\ Count(fSt.buf, "@") = 1
              /\ color => /\ Count(fSt.buf, "CYAN") = 1
                          /\ Count(fSt.buf, "YELLOW") = 1
                          /\ RedAt(fSt.buf, 1) > Len(HeaderLine)

C4_Witness ==
    LineMode /\ FmtDone /\ Len(fMatches) >= 3 /\ Count(fSt.buf, "@") = 1

\* C5: in line-oriented mode the finished block is, colours removed, the header
\* line, then every line of the text that contains (part of) a match, once each, in
\* text order, each ended by one newline, then one blank line.
C5_BlockIsHeaderMatchedLinesBlank ==
    (LineMode /\ FmtDone /\ fMatches # <<>>) =>
        Strip(fSt.buf) = (HeaderLine \o MatchedLines(fText, fMatches, 0)) \o <<NL>>

\* a line with two matches, then a line without a match
C5_Witness ==
    /\ LineMode /\ FmtDone
    /\ fText = <<"a", "b", NL, "a">>
    /\ fMatches = <<[s |-> 0, e |-> 1], [s |-> 1, e |-> 2]>>
    /\ Strip(fSt.buf) = HeaderLine \o <<"a", "b", NL, NL>>

\* C6 (as claimed): in title-only mode a matching revision yields exactly the line
\* title@revid with its terminating newline and nothing else; a revision without a
\* match yields nothing.
C6_TitleOnlyLineEndsInNewline ==
    (onlyTitle /\ FmtDone) =>
        IF IsMatch(fMatches)
        THEN Strip(fSt.buf) = HeaderLine
        ELSE fSt.buf = <<>>

\* the end of the coloured span as the formatter's comment and tests have it
EffectiveEnd(text, m) == IF m.s < m.e /\ text[m.e] = NL THEN m.e - 1 ELSE m.e

\* C7 (amended): for every match emitted, the octets between the red sequence and
\* the following plain sequence are text[m_start, m_end), except that the final
\* newline of a non-empty match ending in a newline is left out of the span.
C7_RedSpanIsMatchUpToEffectiveEnd ==
    (LineMode /\ color) =>
        /\ Count(fSt.buf, "RED") = fIdx
        /\ \A k \in 1..fIdx :
              RedSpan(fSt.buf, k) = Slice(fText, fMatches[k].s, EffectiveEnd(fText, fMatches[k]))

C7_Witness ==
    /\ LineMode /\ color /\ FmtDone
    /\ \E k \in 1..Len(fMatches) :
          /\ fMatches[k].e - fMatches[k].s >= 2
          /\ fText[fMatches[k].e] = NL
          /\ RedSpan(fSt.buf, k) = Slice(fText, fMatches[k].s, fMatches[k].e - 1)

\* C7 (as claimed): the span is text[m_start, m_end) for every match, matches
\* ending in a newline included.
C7_RedSpanIsWholeMatch ==
    (LineMode /\ color) =>
        \A k \in 1..fIdx :
            RedSpan(fSt.buf, k) = Slice(fText, fMatches[k].s, fMatches[k].e)

\* what C8 says of the k-th match of a finished block: the span stops before the
\* newline, the newline follows the span at once, and then comes either the end of
\* the block or the part of the next match's own line that precedes it
NewlineOutsideSpan(k) ==
    LET m == fMatches[k]
        i == RedAt(fSt.buf, k)
        p == PlainAfter(fSt.buf, i)
    IN  /\ RedSpan(fSt.buf, k) = Slice(fText, m.s, m.e - 1)
        /\ p + 1 <= Len(fSt.buf) /\ fSt.buf[p + 1] = NL
        /\ IF k = Len(fMatches)
           THEN SubSeq(fSt.buf, p + 1, Len(fSt.buf)) = <<NL, NL>>
           ELSE SubSeq(fSt.buf, p + 2, RedAt(fSt.buf, k + 1) - 1)
                    = Slice(fText, LineStartOf(fText, fMatches[k + 1].s), fMatches[k + 1].s)

\* C8 (amended): when a non-empty match ends with a newline, that newline is
\* written once, outside the coloured span, and the line after it is neither
\* printed nor coloured because of that match.
C8_NewlineEndedMatch ==
    (LineMode /\ color /\ FmtDone) =>
        \A k \in 1..Len(fMatches) :
            (fMatches[k].s < fMatches[k].e /\ fText[fMatches[k].e] = NL)
                => NewlineOutsideSpan(k)

C8_Witness ==
    /\ LineMode /\ color /\ FmtDone
    /\ fText = <<"a", NL, "b">>
    /\ fMatches = <<[s |-> 0, e |-> 2]>>
    /\ fSt.buf = Header(<<>>, FmtTitle, FmtRevId) \o <<"RED", "a", "PLAIN", NL, NL>>

\* C8 (as claimed): the same for every match whose end lands immediately after a
\* newline, a zero-width match at the start of a line included.
C8_AnyMatchEndingAfterNewline ==
    (LineMode /\ color /\ FmtDone) =>
        \A k \in 1..Len(fMatches) :
            (fMatches[k].e >= 1 /\ fText[fMatches[k].e] = NL)
                => NewlineOutsideSpan(k)

\* the first line of the text, without its newline
FirstLine(text) == Slice(text, 0, LineEndOf(text, 0))

\* C9: a zero-width match at position 0 gives, right after the header, an empty
\* red span and then the whole first line (in plain colour when no other match
\* follows), then the blank line; the formatter never gets stuck on it.
C9_ZeroWidthMatchAtStart ==
    (LineMode /\ fMatches # <<>> /\ fMatches[1] = [s |-> 0, e |-> 0]) =>
        /\ ~FmtDone => ENABLED FmtNext
        /\ ~fSt.panic
        /\ fIdx >= 1 =>
              LET h == Header(<<>>, FmtTitle, FmtRevId)
              IN  IsPrefix(SetPlain(SetColor(h, "RED")), fSt.buf)
        /\ FmtDone =>
              /\ IsPrefix((HeaderLine \o FirstLine(fText)) \o <<NL>>, Strip(fSt.buf))
              /\ Len(fMatches) = 1 =>
                    fSt.buf = ((SetPlain(SetColor(Header(<<>>, FmtTitle, FmtRevId), "RED"))
                                   \o FirstLine(fText)) \o <<NL>>) \o <<NL>>

C9_Witness ==
    /\ LineMode /\ color /\ FmtDone
    /\ fText = <<"a", "b", NL, "a">>
    /\ fMatches = <<[s |-> 0, e |-> 0]>>
    /\ fSt.buf = <<"CYAN", "T", "PLAIN", "@", "YELLOW", "7", NL, "PLAIN",
                   "RED", "PLAIN", "a", "b", NL, NL>>

\* every set-colour sequence is followed by a plain sequence before the next
\* set-colour sequence and before the end
RECURSIVE BalancedFrom(_, _, _)
BalancedFrom(buf, i, set) ==
    IF i > Len(buf) THEN ~set
    ELSE IF buf[i] \in {"CYAN", "YELLOW", "RED"} THEN ~set /\ BalancedFrom(buf, i + 1, TRUE)
    ELSE IF buf[i] = "PLAIN" THEN set /\ BalancedFrom(buf, i + 1, FALSE)
    ELSE BalancedFrom(buf, i + 1, set)

\* C10: in both output modes, within a revision's block every set-colour sequence
\* is reset to plain before the next set-colour sequence and before the block ends.
C10_ColoursBalanced ==
    /\ BalancedFrom(fSt.buf, 1, FALSE)
    /\ (color /\ FmtDone /\ IsMatch(fMatches)) =>
          Count(fSt.buf, "PLAIN") =
              Count(fSt.buf, "CYAN") + Count(fSt.buf, "YELLOW") + Count(fSt.buf, "RED")

C10_Witness ==
    /\ color /\ FmtDone /\ Len(fMatches) >= 2
    /\ Count(fSt.buf, "RED") >= 2 /\ Count(fSt.buf, "PLAIN") >= 4

-----------------------------------------------------------------------------
(* the dump file as the XML events quick_xml's Reader delivers, with the octets
   each one takes in the file *)

\* octets of a tag name
NameLen(n) ==
    CASE n = "page" -> 4 [] n = "title" -> 5 [] n = "ns" -> 2
      [] n = "revision" -> 8 [] n = "id" -> 2 [] n = "text" -> 4
      [] n = "contributor" -> 11

StartEv(n) == [k |-> "start", n |-> n, v |-> <<>>, len |-> NameLen(n) + 2]    \* <n>
EndEv(n)   == [k |-> "end",   n |-> n, v |-> <<>>, len |-> NameLen(n) + 3]    \* </n>
EmptyEv(n) == [k |-> "empty", n |-> n, v |-> <<>>, len |-> NameLen(n) + 4]    \* <n />
TextEv(v)  == [k |-> "text",  n |-> "",  v |-> v,  len |-> Len(v)]
EofEv       == [k |-> "eof",   n |-> "",  v |-> <<>>, len |-> 0]

\* a revision whose text is the empty element stands in the inputs as <<"">>
NoText == <<"">>

\* the prolog in front of the first page: pad octets of character data
Prolog(pad) ==
    IF pad = 0 THEN <<>>
    ELSE <<[k |-> "text", n |-> "", v |-> <<>>, len |-> pad]>>

\* <revision><id>id</id><text>text</text></revision>, or with <text /> for NoText
RevisionEvs(id, text) ==
    <<StartEv("revision"), StartEv("id"), TextEv(id), EndEv("id")>>
    \o (IF text = NoText
        THEN <<EmptyEv("text")>>
        ELSE <<StartEv("text"), TextEv(text), EndEv("text")>>)
    \o <<EndEv("revision")>>

\* <revision><id>id</id><contributor><id>by</id></contributor><text>text</text></revision>
ContributorRevisionEvs(id, by, text) ==
    <<StartEv("revision"), StartEv("id"), TextEv(id), EndEv("id"),
      StartEv("contributor"), StartEv("id"), TextEv(by), EndEv("id"), EndEv("contributor"),
      StartEv("text"), TextEv(text), EndEv("text"), EndEv("revision")>>

RECURSIVE RevisionsEvs(_)
RevisionsEvs(revs) ==
    IF revs = <<>> THEN <<>>
    ELSE (IF "by" \in DOMAIN revs[1]
          THEN ContributorRevisionEvs(revs[1].id, revs[1].by, revs[1].text)
          ELSE RevisionEvs(revs[1].id, revs[1].text))
         \o RevisionsEvs(Tail(revs))

\* <page><title>..</title><ns>..</ns> revisions </page>
PageEvs(title, ns, revs) ==
    (<<StartEv("page"),
       StartEv("title"), TextEv(title), EndEv("title"),
       StartEv("ns"), TextEv(ns), EndEv("ns")>>
     \o RevisionsEvs(revs))
    \o <<EndEv("page")>>

RECURSIVE SumLen(_, _)
SumLen(evs, n) == IF n = 0 THEN 0 ELSE SumLen(evs, n - 1) + evs[n].len

\* metadata(dump_file)?.len()
FileLen(evs) == SumLen(evs, Len(evs))

\* file offset of the first octet of event j (of the end of the file for j = Len + 1)
Offset(evs, j) == SumLen(evs, j - 1)

\* the reader's j-th event, Eof past the end
Ev(evs, j) == IF j <= Len(evs) THEN evs[j] ELSE EofEv

\* File::seek(start): the first event that begins at or after start.  What is left
\* of an event cut by the seek has lost its '<' and reads as character data, which
\* the page search passes over.
FirstEventAt(evs, start) ==
    CHOOSE j \in 1..(Len(evs) + 1) :
        /\ (j = Len(evs) + 1 \/ Offset(evs, j) >= start)
        /\ \A i \in 1..(j - 1) : Offset(evs, i) < start

\* reader.buffer_position() after event j was read by a reader that started at start
BufferPosition(evs, start, j) == Offset(evs, j + 1) - start

-----------------------------------------------------------------------------
(* the regex of a search *)

\* find_iter of the literal regex `a`: one match per "a", left to right
RECURSIVE LiteralMatches(_, _)
LiteralMatches(text, from) ==
    IF from > Len(text) THEN <<>>
    ELSE IF text[from] = "a"
         THEN <<[s |-> from - 1, e |-> from]>> \o LiteralMatches(text, from + 1)
         ELSE LiteralMatches(text, from + 1)

\* find_iter of the empty pattern: a zero-width match at every position
EmptyMatches(text) == [k \in 1..(Len(text) + 1) |-> [s |-> k - 1, e |-> k - 1]]

\* re.find_iter(text) in the driver specification
ReMatches(text) == IF regex = "a" THEN LiteralMatches(text, 1) ELSE EmptyMatches(text)

-----------------------------------------------------------------------------
(* search_dump_reader: the page extractor of one range worker *)

\* no error was returned
NoError == [e |-> "none"]

\* restrict_namespaces: None, or Some(the given strings)
NoFilter == [some |-> FALSE, ns |-> {}]
Filter(ns) == [some |-> TRUE, ns |-> ns]
NoWorker == <<>>
U64Max == 2147483647     \* stands for u64::MAX: larger than every file offset

\* mutant: no namespace is filtered out
NsSkip_Never(text) == FALSE

\* mutant: an empty set of namespaces is taken as no filter
NsSkip_EmptyMeansAll(text) == restrict.ns # {} /\ text \notin restrict.ns

\* `!restrict_namespaces.iter().any(|i| *i == text)`: the page is to be skipped
NsSkip(text) == text \notin restrict.ns

\* mutant: the length of the <page> tag is not subtracted
PageTagStartPos_NoTagLen(bufpos, start) == bufpos + start

\* page_tag_start_pos: where the <page> tag just read begins in the file
PageTagStartPos(bufpos, start) == bufpos + start - 6

\* mutant: a page that starts exactly at end is still taken
BeyondRange_Off(pos, end) == pos > end

\* mutant: a page whose tag does not end before `end` is left to the next range
BeyondRange_TagCrossesEnd(pos, end) == pos + 6 > end

\* `if page_tag_start_pos >= end { break; }`
BeyondRange(pos, end) == pos >= end

\* the locals of search_dump_reader for the range [start, end) of file f
\*   mode  "outer": in skip_to_start_tag_or_eof(page)   "inner": in the page loop
\*         "print": a block is ready for stdout_writer.print
\*         "printing": inside print     "ok" | "err" | "panic": returned
\*   rv    the revision whose block is in buf (file, index of its <revision> event)
\*   pages the <page> events this worker took, in order
\*   revs  the <revision> events this worker entered the revision arm for, in order
NewWorker(f, start, end) ==
    [f |-> f, start |-> start, end |-> end,
     pos |-> FirstEventAt(files[f].evs, start), mode |-> "outer",
     title |-> <<>>, rev |-> <<>>, buf |-> <<>>, written |-> 0,
     rv |-> <<>>, pages |-> <<>>, revs |-> <<>>, err |-> ""]

Fail(w, e) == [w EXCEPT !.mode = "err", !.err = e]

\* skip_to_start_tag...: index of the first Start(n), Empty(n) or Eof event from j on
RECURSIVE SkipTo(_, _, _)
SkipTo(evs, n, j) ==
    LET e == Ev(evs, j)
    IN  IF e.k = "eof" \/ (e.k \in {"start", "empty"} /\ e.n = n) THEN j
        ELSE SkipTo(evs, n, j + 1)

\* mutant: what is in the buffer when the formatter fails is printed
FormatRevision_PrintsPartial(w, text, revAt, next) ==
    LET ms == ReMatches(text)
    IN  IF onlyTitle
        THEN IF IsMatch(ms)
             THEN [w EXCEPT !.buf = TitleOnly(w.buf, w.title, w.rev, ms),
                            !.rv = <<w.f, revAt>>, !.pos = next, !.mode = "print"]
             ELSE [w EXCEPT !.pos = next]
        ELSE LET st == FindInText(w.buf, w.title, w.rev, text, ms)
             IN  IF st.panic
                 THEN [w EXCEPT !.mode = "panic"]
                 ELSE IF st.err
                 THEN [w EXCEPT !.buf = st.buf, !.rv = <<w.f, revAt>>,
                                !.pos = next, !.mode = "print"]
                 ELSE [w EXCEPT !.buf = st.buf, !.rv = <<w.f, revAt>>,
                                !.pos = next, !.mode = "print"]

\* the closure run on the text of a revision: title-only branch or find_in_text;
\* the block is left in the buffer for stdout_writer.print
FormatRevision(w, text, revAt, next) ==
    LET ms == ReMatches(text)
    IN  IF onlyTitle
        THEN IF IsMatch(ms)
             THEN [w EXCEPT !.buf = TitleOnly(w.buf, w.title, w.rev, ms),
                            !.rv = <<w.f, revAt>>, !.pos = next, !.mode = "print"]
             ELSE [w EXCEPT !.pos = next]
        ELSE LET st == FindInText(w.buf, w.title, w.rev, text, ms)
             IN  IF st.panic
                 THEN [w EXCEPT !.mode = "panic"]
                 ELSE IF st.err
                 THEN \* `?`: search_dump_reader returns, stdout_buffer is dropped
                      Fail([w EXCEPT !.buf = <<>>], "Utf8")
                 ELSE [w EXCEPT !.buf = st.buf, !.rv = <<w.f, revAt>>,
                                !.pos = next, !.mode = "print"]

\* mutant: an empty <text /> element is searched as the empty text
RevisionArm_EmptyIsText(w, evs) ==
    LET i  == SkipTo(evs, "id", w.pos + 1)
        ei == Ev(evs, i)
        t  == SkipTo(evs, "text", i + 2)
        et == Ev(evs, t)
    IN  IF ei.k = "eof" THEN Fail(w, "UnexpectedEof(id)")
        ELSE IF ei.k = "empty" THEN Fail(w, "UnexpectedEmptyTag(id)")
        ELSE IF Ev(evs, i + 1).k # "text" THEN Fail(w, "OnlyTextExpectedInTag(id)")
        ELSE LET w1 == [w EXCEPT !.rev = Ev(evs, i + 1).v]
             IN  IF et.k = "eof" THEN Fail(w1, "UnexpectedEof(text)")
                 ELSE IF et.k = "empty" THEN FormatRevision(w1, <<>>, w.pos, t + 1)
                 ELSE IF Ev(evs, t + 1).k # "text"
                      THEN Fail(w1, "OnlyTextExpectedInTag(text)")
                      ELSE FormatRevision(w1, Ev(evs, t + 1).v, w.pos, t + 2)

\* mutant: the revision id is taken from the last <id> in front of the text
RevisionArm_LastId(w, evs) ==
    LET t   == SkipTo(evs, "text", w.pos + 1)
        et  == Ev(evs, t)
        ids == { j \in (w.pos + 1)..(t - 1) : Ev(evs, j).k = "start" /\ Ev(evs, j).n = "id" }
    IN  IF ids = {} THEN Fail(w, "UnexpectedEof(id)")
        ELSE LET i  == CHOOSE j \in ids : \A o \in ids : o <= j
                 w1 == [w EXCEPT !.rev = Ev(evs, i + 1).v]
             IN  IF et.k = "eof" THEN Fail(w1, "UnexpectedEof(text)")
                 ELSE IF et.k = "empty" THEN [w1 EXCEPT !.pos = t + 1]
                 ELSE IF Ev(evs, t + 1).k # "text"
                      THEN Fail(w1, "OnlyTextExpectedInTag(text)")
                      ELSE FormatRevision(w1, Ev(evs, t + 1).v, w.pos, t + 2)

\* mutant: <text> without character data is passed over like <text />
RevisionArm_NoTextIsEmpty(w, evs) ==
    LET i  == SkipTo(evs, "id", w.pos + 1)
        ei == Ev(evs, i)
        t  == SkipTo(evs, "text", i + 2)
        et == Ev(evs, t)
    IN  IF ei.k = "eof" THEN Fail(w, "UnexpectedEof(id)")
        ELSE IF ei.k = "empty" THEN Fail(w, "UnexpectedEmptyTag(id)")
        ELSE IF Ev(evs, i + 1).k # "text" THEN Fail(w, "OnlyTextExpectedInTag(id)")
        ELSE LET w1 == [w EXCEPT !.rev = Ev(evs, i + 1).v]
             IN  IF et.k = "eof" THEN Fail(w1, "UnexpectedEof(text)")
                 ELSE IF et.k = "empty" THEN [w1 EXCEPT !.pos = t + 1]
                 ELSE IF Ev(evs, t + 1).k # "text"
                      THEN [w1 EXCEPT !.pos = t + 1]
                      ELSE FormatRevision(w1, Ev(evs, t + 1).v, w.pos, t + 2)

\* the `b"revision"` arm: first <id>, then <text> or <text />
RevisionArm(w, evs) ==
    LET i  == SkipTo(evs, "id", w.pos + 1)
        ei == Ev(evs, i)
        t  == SkipTo(evs, "text", i + 2)
        et == Ev(evs, t)
    IN  IF ei.k = "eof" THEN Fail(w, "UnexpectedEof(id)")
        ELSE IF ei.k = "empty" THEN Fail(w, "UnexpectedEmptyTag(id)")
        ELSE IF Ev(evs, i + 1).k # "text" THEN Fail(w, "OnlyTextExpectedInTag(id)")
        ELSE LET w1 == [w EXCEPT !.rev = Ev(evs, i + 1).v]
             IN  IF et.k = "eof" THEN Fail(w1, "UnexpectedEof(text)")
                 ELSE IF et.k = "empty" THEN [w1 EXCEPT !.pos = t + 1]
                 ELSE IF Ev(evs, t + 1).k # "text"
                      THEN Fail(w1, "OnlyTextExpectedInTag(text)")
                      ELSE FormatRevision(w1, Ev(evs, t + 1).v, w.pos, t + 2)

\* one event of the page search (the outer loop of search_dump_reader)
OuterStep(w, evs) ==
    LET e == Ev(evs, w.pos)
    IN  IF e.k = "eof" THEN [w EXCEPT !.mode = "ok"]
        ELSE IF e.k = "empty" /\ e.n = "page" THEN Fail(w, "UnexpectedEmptyTag(page)")
        ELSE IF e.k = "start" /\ e.n = "page"
             THEN IF BeyondRange(PageTagStartPos(BufferPosition(evs, w.start, w.pos), w.start),
                                 w.end)
                  THEN [w EXCEPT !.mode = "ok"]
                  ELSE [w EXCEPT !.mode = "inner", !.pos = w.pos + 1,
                                 !.pages = Append(w.pages, w.pos)]
        ELSE [w EXCEPT !.pos = w.pos + 1]

\* one event of the page loop (the inner loop of search_dump_reader)
InnerStep(w, evs) ==
    LET e    == Ev(evs, w.pos)
        next == Ev(evs, w.pos + 1)
    IN  IF e.k = "eof" THEN Fail(w, "UnexpectedEof(page)")
        ELSE IF e.k = "end" /\ e.n = "page" THEN [w EXCEPT !.mode = "outer", !.pos = w.pos + 1]
        ELSE IF e.k = "start" /\ e.n = "title"
             THEN IF next.k = "text"
                  THEN [w EXCEPT !.title = next.v, !.pos = w.pos + 2]
                  ELSE Fail(w, "OnlyTextExpectedInTag(title)")
        ELSE IF e.k = "start" /\ e.n = "ns" /\ restrict.some
             THEN IF next.k = "text"
                  THEN IF NsSkip(next.v)
                       THEN [w EXCEPT !.mode = "outer", !.pos = w.pos + 2]
                       ELSE [w EXCEPT !.pos = w.pos + 2]
                  ELSE Fail(w, "OnlyTextExpectedInTag(ns)")
        ELSE IF e.k = "start" /\ e.n = "revision"
             THEN RevisionArm([w EXCEPT !.revs = Append(@, w.pos)], evs)
        ELSE [w EXCEPT !.pos = w.pos + 1]

\* search_dump_reader runs until it calls stdout_writer.print or returns
RECURSIVE RunWorker(_)
RunWorker(w) ==
    IF w.mode = "outer" THEN RunWorker(OuterStep(w, files[w.f].evs))
    ELSE IF w.mode = "inner" THEN RunWorker(InnerStep(w, files[w.f].evs))
    ELSE w

\* after print: stdout_buffer.clear(), and the page loop goes on
AfterPrint(w) ==
    RunWorker([w EXCEPT !.buf = <<>>, !.written = 0, !.rv = <<>>, !.mode = "inner"])

-----------------------------------------------------------------------------
(* search_dump: the driver *)

\* is_compressed(file)
IsCompressed(file) == file.kind \in {"7z", "bz2"}

\* ceiling_div(x, y) for y > 0; with y = 0 the division panics (see SplitFile)
CeilingDiv(x, y) == (x + y - 1) \div y

\* `parts`: "parts are at most 500 MiB"
Parts(len) == CeilingDiv(len, PartLimit)

\* mutant: slice_size is rounded down
SliceSize_Floor(len) == len \div Parts(len)

\* `slice_size`: "make sure to read to end"
SliceSize(len) == CeilingDiv(len, Parts(len))

\* `(0..parts).into_par_iter()` maps i to the range [i * slice_size, (i + 1) * slice_size)
RangeOfPart(len, i) == [start |-> i * SliceSize(len), end |-> (i + 1) * SliceSize(len)]

\* the threads of the pool that into_par_iter runs on: rayon's global pool
PoolSize == pool

\* the errors raised by the step that took worker id to w2, for the log
Raised(id, w2) == IF w2.mode = "err" THEN <<[id |-> id, e |-> w2.err]>> ELSE <<>>

Active(w) == w.mode \in {"outer", "inner", "print", "printing"}
Returned(w) == w.mode \in {"ok", "err", "panic"}

Ids == DOMAIN work
PartsOf(f) == { id \in Ids : id[1] = f }
Running == { id \in Ids : Active(work[id]) }

\* whether the call takes the path without rayon:
\* `single_threaded && !dump_files.iter().any(is_compressed)`
TakesInlinePath == threadCount = 1 /\ ~\E f \in 1..Len(files) : IsCompressed(files[f])

\* the head of search_dump.  For thread_count > 1 build_global builds the global
\* pool of the process with that many threads; it fails when the pool exists
\* already and expect panics.  Otherwise the pooled path runs on the global pool
\* as it is, which rayon builds with one thread per logical CPU at its first use.
\* Then the regex, the stdout writer and the two atomics are set up.
Begin ==
    /\ pc = "start"
    /\ IF threadCount > 1 /\ pool # 0
       THEN /\ pc' = "returned"
            /\ result' = "panic"
            /\ UNCHANGED pool
       ELSE /\ pc' = IF TakesInlinePath THEN "inline" ELSE "pool"
            /\ pool' = IF threadCount > 1 THEN threadCount
                       ELSE IF ~TakesInlinePath /\ pool = 0 THEN NumCpus ELSE pool
            /\ UNCHANGED result
    /\ UNCHANGED <<color, onlyTitle, files, threadCount, restrict, fileSt, work, stdout, lock>>
    /\ UNCHANGED <<fvars, rvars, pvars, cvars, regex, child>>
    /\ UNCHANGED <<call, compressed_file_found, errlog, error>>

\* inline path: search_dump_part(dump_file, 0, u64::MAX) for the next file, up to
\* its first print or its return
InlineSearch ==
    /\ pc = "inline"
    /\ \A id \in Ids : work[id].mode = "ok"
    /\ Cardinality(Ids) < Len(files)
    /\ LET f == Cardinality(Ids) + 1
           w2 == RunWorker(NewWorker(f, 0, U64Max))
       IN  /\ work' = work @@ (<<f, 0>> :> w2)
           /\ errlog' = errlog \o Raised(<<f, 0>>, w2)
    /\ UNCHANGED <<color, onlyTitle, files, threadCount, restrict, pc, fileSt, stdout,
                   lock, result>>
    /\ UNCHANGED <<fvars, rvars, pvars, cvars, regex, child>>
    /\ UNCHANGED <<pool, call, compressed_file_found, error>>

\* inline path: `?` returns the first error; after the last file Ok(SearchDumpResult)
InlineReturn ==
    /\ pc = "inline"
    /\ \A id \in Ids : Returned(work[id])
    /\ \/ /\ \E id \in Ids : work[id].mode = "err"
          /\ result' = "err"
          /\ error' = errlog[1]
       \/ /\ \E id \in Ids : work[id].mode = "panic"
          /\ result' = "panic"
          /\ UNCHANGED error
       \/ /\ \A id \in Ids : work[id].mode = "ok"
          /\ Cardinality(Ids) = Len(files)
          /\ result' = "ok"
          /\ UNCHANGED error
    /\ pc' = "returned"
    /\ UNCHANGED <<color, onlyTitle, files, threadCount, restrict, fileSt, work, stdout, lock>>
    /\ UNCHANGED <<fvars, rvars, pvars, cvars, regex, child>>
    /\ UNCHANGED <<pool, call, compressed_file_found, errlog>>

\* pooled path, the closure of the outer try_for_each for a plain file: its length,
\* parts and slice_size, and the ranges handed to the inner try_for_each.
\* A file of length 0 has parts = 0 and ceiling_div(0, 0) panics.
SplitFile(f) ==
    /\ pc = "pool"
    /\ fileSt[f] = "pending"
    /\ ~IsCompressed(files[f])
    /\ \A g \in 1..Len(files) : fileSt[g] # "err"
    /\ LET len == FileLen(files[f].evs)
       IN  IF Parts(len) = 0
           THEN /\ fileSt' = [fileSt EXCEPT ![f] = "panic"]
                /\ UNCHANGED work
           ELSE /\ fileSt' = [fileSt EXCEPT ![f] = "split"]
                /\ work' = work @@
                     [id \in { <<f, i>> : i \in 0..(Parts(len) - 1) } |->
                         [NewWorker(f, RangeOfPart(len, id[2]).start, RangeOfPart(len, id[2]).end)
                             EXCEPT !.mode = "pending"]]
    /\ UNCHANGED <<color, onlyTitle, files, threadCount, restrict, pc, stdout, lock, result>>
    /\ UNCHANGED <<fvars, rvars, pvars, cvars, regex, child>>
    /\ UNCHANGED <<pool, call, compressed_file_found, errlog, error>>

\* pooled path: a pool thread takes a range and runs search_dump_part on it, up to
\* its first print or its return.  The inner try_for_each hands out no further
\* range of a file once one of its ranges has returned an error.
StartPart(id) ==
    /\ pc = "pool"
    /\ id \in Ids /\ work[id].mode = "pending"
    /\ Cardinality(Running) < PoolSize
    /\ \A o \in PartsOf(id[1]) : work[o].mode # "err"
    /\ work' = [work EXCEPT ![id] = RunWorker([work[id] EXCEPT !.mode = "outer"])]
    /\ errlog' = errlog \o Raised(id, work'[id])
    /\ UNCHANGED <<color, onlyTitle, files, threadCount, restrict, pc, fileSt, stdout,
                   lock, result>>
    /\ UNCHANGED <<fvars, rvars, pvars, cvars, regex, child>>
    /\ UNCHANGED <<pool, call, compressed_file_found, error>>

\* no decompressor was spawned for the file
NoChild == [proc |-> "none"]

\* pooled path, the closure of the outer try_for_each for a compressed file, from
\* Command::new to the first print or the return of search_dump_reader on the
\* child's stdout, range [0, u64::MAX).  A binary that cannot be started is
\* SubCommandCouldNotBeStarted.
\*   child[f]  proc: "running" | "reaped" (waited for, its exit status seen) |
\*                   "abandoned" (handle dropped without wait)
\*             out:  the pipe of its stdout, "open" | "closed"
\*             res:  what the closure returned
SpawnDecompressor(f) ==
    /\ pc = "pool"
    /\ fileSt[f] = "pending"
    /\ IsCompressed(files[f])
    /\ \A g \in 1..Len(files) : fileSt[g] # "err"
    /\ Cardinality(Running) < PoolSize
    /\ IF files[f].spawn
       THEN /\ child' = [child EXCEPT ![f] = [proc |-> "running", out |-> "open",
                                               res |-> [e |-> "none"]]]
            /\ work' = work @@
                  (<<f, 0>> :> RunWorker([NewWorker(f, 0, U64Max) EXCEPT !.mode = "outer"]))
            /\ fileSt' = [fileSt EXCEPT ![f] = "scan"]
            /\ errlog' = errlog \o Raised(<<f, 0>>, work'[<<f, 0>>])
       ELSE /\ child' = [child EXCEPT ![f] = [proc |-> "none", out |-> "none",
                                               res |-> [e |-> "SubCommandCouldNotBeStarted"]]]
            /\ fileSt' = [fileSt EXCEPT ![f] = "err"]
            /\ errlog' = Append(errlog, [id |-> <<f, 0>>, e |-> "SubCommandCouldNotBeStarted"])
            /\ UNCHANGED work
    /\ UNCHANGED <<color, onlyTitle, files, threadCount, restrict, pc, stdout, lock, result,
                   regex>>
    /\ UNCHANGED <<fvars, rvars, pvars, cvars>>
    /\ UNCHANGED <<pool, call, compressed_file_found, error>>

\* what the closure returns after handle.wait_with_output()
WaitResult(file) ==
    IF file.exit = 0 THEN [e |-> "Ok"]
    ELSE IF FromUtf8Ok(file.stderr)
         THEN [e |-> "SubCommandTerminatedUnsuccessfully", status |-> file.exit,
               stderr |-> file.stderr]
         ELSE [e |-> "Utf8"]
\* mutant: the closure of a compressed file leaves compressed_file_found alone
CompressedReturn_NoFlag(f) ==
    /\ pc = "pool"
    /\ fileSt[f] = "scan"
    /\ Returned(work[<<f, 0>>])
    /\ LET w == work[<<f, 0>>]
       IN  IF w.mode = "ok"
           THEN /\ child' = [child EXCEPT ![f] = [proc |-> "reaped", out |-> "closed",
                                                   res |-> WaitResult(files[f])]]
                /\ fileSt' = [fileSt EXCEPT ![f] = IF files[f].exit = 0 THEN "ok" ELSE "err"]
                /\ UNCHANGED compressed_file_found
                /\ errlog' = IF files[f].exit = 0 THEN errlog
                             ELSE Append(errlog, [id |-> <<f, 0>>, e |-> WaitResult(files[f]).e])
           ELSE /\ child' = [child EXCEPT ![f] = [proc |-> "abandoned", out |-> "closed",
                                                   res |-> [e |-> w.err]]]
                /\ fileSt' = [fileSt EXCEPT ![f] = w.mode]
                /\ UNCHANGED <<compressed_file_found, errlog>>
    /\ UNCHANGED <<color, onlyTitle, files, threadCount, restrict, pc, work, stdout, lock,
                   result, regex>>
    /\ UNCHANGED <<fvars, rvars, pvars, cvars>>
    /\ UNCHANGED <<pool, call, error>>


\* pooled path, the rest of the closure for a compressed file once
\* search_dump_reader has returned.  On Err, `search_res?` leaves the closure:
\* buf_reader and handle are dropped, which closes the pipes and does not wait for
\* the child.  On Ok, wait_with_output reads stderr to its end and waits.
CompressedReturn(f) ==
    /\ pc = "pool"
    /\ fileSt[f] = "scan"
    /\ Returned(work[<<f, 0>>])
    /\ LET w == work[<<f, 0>>]
       IN  IF w.mode = "ok"
           THEN /\ child' = [child EXCEPT ![f] = [proc |-> "reaped", out |-> "closed",
                                                   res |-> WaitResult(files[f])]]
                /\ fileSt' = [fileSt EXCEPT ![f] = IF files[f].exit = 0 THEN "ok" ELSE "err"]
                /\ compressed_file_found' = TRUE
                /\ errlog' = IF files[f].exit = 0 THEN errlog
                             ELSE Append(errlog, [id |-> <<f, 0>>, e |-> WaitResult(files[f]).e])
           ELSE /\ child' = [child EXCEPT ![f] = [proc |-> "abandoned", out |-> "closed",
                                                   res |-> [e |-> w.err]]]
                /\ fileSt' = [fileSt EXCEPT ![f] = w.mode]
                /\ UNCHANGED <<compressed_file_found, errlog>>
    /\ UNCHANGED <<color, onlyTitle, files, threadCount, restrict, pc, work, stdout, lock,
                   result, regex>>
    /\ UNCHANGED <<fvars, rvars, pvars, cvars>>
    /\ UNCHANGED <<pool, call, error>>

\* mutant: print does not wait for the stream lock
PrintAcquire_NoLock(id) ==
    /\ id \in Ids /\ work[id].mode = "print" /\ work[id].buf # <<>>
    /\ lock' = id
    /\ work' = [work EXCEPT ![id].mode = "printing"]
    /\ UNCHANGED <<color, onlyTitle, files, threadCount, restrict, pc, fileSt, stdout, result>>
    /\ UNCHANGED <<fvars, rvars, pvars, cvars, regex, child>>
    /\ UNCHANGED <<pool, call, compressed_file_found, errlog, error>>

\* stdout_writer.print(&stdout_buffer): the stream lock is taken
PrintAcquire(id) ==
    /\ id \in Ids /\ work[id].mode = "print" /\ work[id].buf # <<>>
    /\ lock = NoWorker
    /\ lock' = id
    /\ work' = [work EXCEPT ![id].mode = "printing"]
    /\ UNCHANGED <<color, onlyTitle, files, threadCount, restrict, pc, fileSt, stdout, result>>
    /\ UNCHANGED <<fvars, rvars, pvars, cvars, regex, child>>
    /\ UNCHANGED <<pool, call, compressed_file_found, errlog, error>>

\* mutant: print puts the tokens in front of what the stream holds
PrintWrite_AtFront(id) ==
    /\ id \in Ids /\ work[id].mode = "printing"
    /\ work[id].written < Len(work[id].buf)
    /\ stdout' = <<[t |-> work[id].buf[work[id].written + 1], rv |-> work[id].rv]>> \o stdout
    /\ work' = [work EXCEPT ![id].written = @ + 1]
    /\ UNCHANGED <<color, onlyTitle, files, threadCount, restrict, pc, fileSt, lock, result>>
    /\ UNCHANGED <<fvars, rvars, pvars, cvars, regex, child>>
    /\ UNCHANGED <<pool, call, compressed_file_found, errlog, error>>

\* print: the buffer goes to the stream, here one token at a time
PrintWrite(id) ==
    /\ id \in Ids /\ work[id].mode = "printing"
    /\ work[id].written < Len(work[id].buf)
    /\ stdout' = Append(stdout, [t |-> work[id].buf[work[id].written + 1], rv |-> work[id].rv])
    /\ work' = [work EXCEPT ![id].written = @ + 1]
    /\ UNCHANGED <<color, onlyTitle, files, threadCount, restrict, pc, fileSt, lock, result>>
    /\ UNCHANGED <<fvars, rvars, pvars, cvars, regex, child>>
    /\ UNCHANGED <<pool, call, compressed_file_found, errlog, error>>

\* mutant: the buffer is not cleared after print
PrintRelease_NoClear(id) ==
    /\ id \in Ids /\ work[id].mode = "printing"
    /\ work[id].written = Len(work[id].buf)
    /\ lock' = IF lock = id THEN NoWorker ELSE lock
    /\ work' = [work EXCEPT ![id] = RunWorker([work[id] EXCEPT !.written = 0, !.mode = "inner"])]
    /\ errlog' = errlog \o Raised(id, work'[id])
    /\ UNCHANGED <<color, onlyTitle, files, threadCount, restrict, pc, fileSt, stdout, result>>
    /\ UNCHANGED <<fvars, rvars, pvars, cvars, regex, child>>
    /\ UNCHANGED <<pool, call, compressed_file_found, error>>

\* print returns and releases the lock; stdout_buffer.clear(); the worker goes on
\* to its next print or its return
PrintRelease(id) ==
    /\ id \in Ids /\ work[id].mode = "printing"
    /\ work[id].written = Len(work[id].buf)
    /\ lock' = IF lock = id THEN NoWorker ELSE lock
    /\ work' = [work EXCEPT ![id] = AfterPrint(work[id])]
    /\ errlog' = errlog \o Raised(id, work'[id])
    /\ UNCHANGED <<color, onlyTitle, files, threadCount, restrict, pc, fileSt, stdout, result>>
    /\ UNCHANGED <<fvars, rvars, pvars, cvars, regex, child>>
    /\ UNCHANGED <<pool, call, compressed_file_found, error>>

\* print of an empty buffer (a revision without a match in line-oriented mode)
\* writes nothing; clear, and the worker goes on
PrintEmpty(id) ==
    /\ id \in Ids /\ work[id].mode = "print" /\ work[id].buf = <<>>
    /\ work' = [work EXCEPT ![id] = AfterPrint(work[id])]
    /\ errlog' = errlog \o Raised(id, work'[id])
    /\ UNCHANGED <<color, onlyTitle, files, threadCount, restrict, pc, fileSt, stdout,
                   lock, result>>
    /\ UNCHANGED <<fvars, rvars, pvars, cvars, regex, child>>
    /\ UNCHANGED <<pool, call, compressed_file_found, error>>

\* pooled path: the inner try_for_each of a file returns when none of its ranges is
\* running and either all have returned Ok or one has returned an error
FileFinish(f) ==
    /\ pc = "pool"
    /\ fileSt[f] = "split"
    /\ \A id \in PartsOf(f) : ~Active(work[id])
    /\ \/ /\ \A id \in PartsOf(f) : work[id].mode = "ok"
          /\ fileSt' = [fileSt EXCEPT ![f] = "ok"]
       \/ /\ \E id \in PartsOf(f) : work[id].mode = "err"
          /\ fileSt' = [fileSt EXCEPT ![f] = "err"]
       \/ /\ \E id \in PartsOf(f) : work[id].mode = "panic"
          /\ fileSt' = [fileSt EXCEPT ![f] = "panic"]
    /\ UNCHANGED <<color, onlyTitle, files, threadCount, restrict, pc, work, stdout, lock, result>>
    /\ UNCHANGED <<fvars, rvars, pvars, cvars, regex, child>>
    /\ UNCHANGED <<pool, call, compressed_file_found, errlog, error>>

\* mutant: the outer try_for_each returns Ok although a file has failed
PoolReturn_IgnoresErrors ==
    /\ pc = "pool"
    /\ \A f \in 1..Len(files) : fileSt[f] \notin {"split", "scan"}
    /\ \/ \E f \in 1..Len(files) : fileSt[f] \in {"panic", "err"}
       \/ \A f \in 1..Len(files) : fileSt[f] = "ok"
    /\ result' = IF \E f \in 1..Len(files) : fileSt[f] = "panic" THEN "panic" ELSE "ok"
    /\ pc' = "returned"
    /\ UNCHANGED <<color, onlyTitle, files, threadCount, restrict, fileSt, work, stdout, lock>>
    /\ UNCHANGED <<fvars, rvars, pvars, cvars, regex, child>>
    /\ UNCHANGED <<pool, call, compressed_file_found, errlog, error>>

\* pooled path: the outer try_for_each returns: Ok when every file is done, an
\* error once a file has failed and no file is in progress; a panic is passed on.
\* Which of several errors raised in parallel try_for_each returns is not
\* specified by rayon: any of them.
PoolReturn ==
    /\ pc = "pool"
    /\ \A f \in 1..Len(files) : fileSt[f] \notin {"split", "scan"}
    /\ \/ /\ \E f \in 1..Len(files) : fileSt[f] = "panic"
          /\ result' = "panic"
          /\ UNCHANGED error
       \/ /\ \A f \in 1..Len(files) : fileSt[f] # "panic"
          /\ \E f \in 1..Len(files) : fileSt[f] = "err"
          /\ result' = "err"
          /\ \E k \in 1..Len(errlog) : error' = errlog[k]
       \/ /\ \A f \in 1..Len(files) : fileSt[f] = "ok"
          /\ result' = "ok"
          /\ UNCHANGED error
    /\ pc' = "returned"
    /\ UNCHANGED <<color, onlyTitle, files, threadCount, restrict, fileSt, work, stdout, lock>>
    /\ UNCHANGED <<fvars, rvars, pvars, cvars, regex, child>>
    /\ UNCHANGED <<pool, call, compressed_file_found, errlog>>

\* the caller calls search_dump once more in the same process, with the same
\* arguments: the locals of the call are new, the global pool is what it was
CallAgain ==
    /\ pc = "returned"
    /\ call = "first"
    /\ result \in {"ok", "err"}
    /\ call' = "second"
    /\ pc' = "start"
    /\ fileSt' = [f \in 1..Len(files) |-> "pending"]
    /\ work' = <<>>
    /\ stdout' = <<>>
    /\ lock' = NoWorker
    /\ result' = "none"
    /\ child' = [f \in 1..Len(files) |-> NoChild]
    /\ compressed_file_found' = FALSE
    /\ errlog' = <<>>
    /\ error' = NoError
    /\ UNCHANGED <<color, onlyTitle, files, threadCount, restrict, regex, pool>>
    /\ UNCHANGED <<fvars, rvars, pvars, cvars>>

-----------------------------------------------------------------------------
(* the dump files of the driver specification *)

Rev(id, text) == [id |-> id, text |-> text]
RevBy(id, by, text) == [id |-> id, by |-> by, text |-> text]

PageT == PageEvs(<<"T">>, <<"0">>, <<Rev(<<"1">>, <<"a">>)>>)
PageU == PageEvs(<<"U">>, <<"1">>, <<Rev(<<"2">>, <<"b">>), Rev(<<"3">>, <<"a", NL, "a">>)>>)
PageV == PageEvs(<<"V">>, <<"0">>, <<Rev(<<"4">>, NoText), Rev(<<"5">>, <<"b", "a">>)>>)

\* a page whose revisions name their contributor
PageW == PageEvs(<<"W">>, <<"0">>, <<RevBy(<<"6">>, <<"9">>, <<"a">>), Rev(<<"8">>, <<"a", "b">>)>>)

\* a page outside the export schema: its first revision has no <text> child
PageX ==
    (<<StartEv("page"),
       StartEv("title"), TextEv(<<"X">>), EndEv("title"),
       StartEv("ns"), TextEv(<<"0">>), EndEv("ns"),
       StartEv("revision"), StartEv("id"), TextEv(<<"7">>), EndEv("id"), EndEv("revision")>>
     \o RevisionEvs(<<"1", "0">>, <<"a">>))
    \o <<EndEv("page")>>

\* a page whose second revision holds an octet that is not valid UTF-8 after a match
PageY == PageEvs(<<"Y">>, <<"0">>, <<Rev(<<"1">>, <<"a">>), Rev(<<"2">>, <<"a", InvalidByte>>)>>)

\* a page in which the start tag `tag` is directly followed by its end tag
PageNoText(tag) ==
    LET Elem(n, v) == IF n = tag THEN <<StartEv(n), EndEv(n)>>
                      ELSE <<StartEv(n), TextEv(v), EndEv(n)>>
    IN  (((((<<StartEv("page")>> \o Elem("title", <<"N">>)) \o Elem("ns", <<"0">>))
            \o <<StartEv("revision")>>) \o Elem("id", <<"3">>)) \o Elem("text", <<"a">>))
        \o <<EndEv("revision"), EndEv("page")>>

\* a page that ends directly behind the start tag `tag`: the stream is cut there
EndsAfter(tag) ==
    LET evs == PageNoText(tag)
        j   == CHOOSE i \in 1..Len(evs) : evs[i].k = "start" /\ evs[i].n = tag
    IN  SubSeq(evs, 1, j)

Plain(evs) == [kind |-> "plain", evs |-> evs]

\* a compressed file: evs is what the decompressor writes to its stdout, exit its
\* exit code and stderr what it writes to its stderr; spawn = FALSE: the binary
\* cannot be started
Compressed(kind, evs, exit, stderr) ==
    [kind |-> kind, evs |-> evs, exit |-> exit, stderr |-> stderr, spawn |-> TRUE]
NotStartable(kind) ==
    [kind |-> kind, evs |-> <<>>, exit |-> 0, stderr |-> <<>>, spawn |-> FALSE]

\* a file cut off inside its last page
Truncated(evs) == SubSeq(evs, 1, Len(evs) - 1)

\* one file of two pages behind prologs of every length within the bound (the range
\* boundary falls after, inside and at the start of the second <page> tag), the
\* same in three ranges, two files, a truncated file, an empty file, a page with a
\* revision without text, two files that both fail, compressed files
DumpFileLists ==
    { <<Plain((Prolog(36 + p) \o PageT) \o PageU)>> : p \in 0..MaxPad }
    \cup { <<Plain((Prolog(3 * PartLimit) \o PageT) \o PageU)>> }
    \cup { <<Plain(Prolog(36) \o PageV), Plain(PageT)>> }
    \cup { <<Plain(Truncated(PageU \o PageT))>>, <<Plain(<<>>), Plain(PageT)>> }
    \cup { <<Plain(PageU \o PageW)>>, <<Plain(PageX)>>, <<Plain(Truncated(PageU))>> }
    \cup { <<Plain(PageY \o PageT)>> }
    \cup { <<Plain(PageNoText(tag) \o PageT)>> : tag \in {"title", "ns", "id", "text"} }
    \cup { <<Plain(PageT \o EndsAfter(tag))>> : tag \in {"title", "ns", "id", "text"} }
    \cup { <<Plain(Truncated(PageT)), Compressed("7z", PageT, 1, <<"e">>)>> }
    \cup { <<Compressed("bz2", PageT, 0, <<>>), Plain(PageT)>>,
           <<Compressed("7z", PageV, 1, <<"e">>)>>,
           <<Compressed("bz2", Truncated(PageU), 1, <<"e">>)>>,
           <<Compressed("7z", PageT, 1, <<InvalidByte>>)>>,
           <<NotStartable("7z")>> }

FmtIdle ==
    /\ fText = <<>> /\ fMatches = <<>> /\ fIdx = 0 /\ fSt = FmtStart(<<>>) /\ fPc = "idle"

Init ==
    /\ FmtIdle
    /\ ResIdle
    /\ PartIdle
    /\ PipeIdle
    /\ color \in BOOLEAN
    /\ onlyTitle \in BOOLEAN
    /\ files \in DumpFileLists
    /\ threadCount \in 0..MaxThreads
    /\ restrict \in {NoFilter, Filter({<<"0">>}), Filter({})}
    /\ pc = "start"
    /\ fileSt = [f \in 1..Len(files) |-> "pending"]
    /\ work = <<>>
    /\ stdout = <<>>
    /\ lock = NoWorker
    /\ result = "none"
    /\ regex \in {"a", ""}
    /\ child = [f \in 1..Len(files) |-> NoChild]
    /\ pool = 0
    /\ call = "first"
    /\ compressed_file_found = FALSE
    /\ errlog = <<>>
    /\ error = NoError

Next ==
    \/ Begin
    \/ InlineSearch
    \/ InlineReturn
    \/ \E f \in 1..Len(files) : SplitFile(f)
    \/ \E f \in 1..Len(files) : FileFinish(f)
    \/ \E f \in 1..Len(files) : SpawnDecompressor(f)
    \/ \E f \in 1..Len(files) : CompressedReturn(f)
    \/ \E id \in Ids : StartPart(id)
    \/ \E id \in Ids : PrintAcquire(id)
    \/ \E id \in Ids : PrintWrite(id)
    \/ \E id \in Ids : PrintRelease(id)
    \/ \E id \in Ids : PrintEmpty(id)
    \/ PoolReturn
    \/ CallAgain

Spec == Init /\ [][Next]_vars

-----------------------------------------------------------------------------
(* claims about the driver, checked under Spec *)

\* the <page> start tags of file f, as event indices
PageTags(f) ==
    { j \in 1..Len(files[f].evs) : files[f].evs[j].k = "start" /\ files[f].evs[j].n = "page" }

\* how often the page whose tag is event j of file f was taken by a range worker
TimesTaken(f, j) ==
    Cardinality({ p \in { <<id, k>> : id \in Ids, k \in 1..4 } :
                    /\ p[1][1] = f
                    /\ p[2] <= Len(work[p[1]].pages)
                    /\ work[p[1]].pages[p[2]] = j })

\* a range boundary of the pooled path falls strictly inside the <page> tag at event j
BoundaryInsideTag(f, j) ==
    \E id \in PartsOf(f) :
        /\ Offset(files[f].evs, j) < work[id].start
        /\ work[id].start < Offset(files[f].evs, j) + 6

\* C1: every <page> element of a plain dump file is processed by exactly one range
\* worker: at no time has a page been taken twice, and when the search has returned
\* Ok every page of every file has been taken once, wherever the range boundaries
\* fall relative to the page tags.
C1_EachPageExactlyOneWorker ==
    \A f \in 1..Len(files) : \A j \in PageTags(f) :
        /\ TimesTaken(f, j) <= 1
        /\ result = "ok" => TimesTaken(f, j) = 1

C1_Witness ==
    /\ result = "ok" /\ threadCount # 1
    /\ \E j \in PageTags(1) : BoundaryInsideTag(1, j) /\ TimesTaken(1, j) = 1
    /\ Cardinality(PartsOf(1)) >= 2

\* the text of the revision whose <revision> tag is event r of evs
TextOfRevision(evs, r) ==
    Ev(evs, SkipTo(evs, "text", SkipTo(evs, "id", r + 1) + 2) + 1).v

\* the block of the one revision a worker has formatted, from an empty buffer
BlockOfRevision(w) ==
    LET text == TextOfRevision(files[w.f].evs, w.rv[2])
    IN  IF onlyTitle
        THEN TitleOnly(<<>>, w.title, w.rev, ReMatches(text))
        ELSE FindInText(<<>>, w.title, w.rev, text, ReMatches(text)).buf

Printing == { id \in Ids : work[id].mode = "printing" }

\* the tokens of one revision are not separated by tokens of another
Contiguous(out) ==
    \A i \in 1..Len(out) : \A k \in (i + 1)..Len(out) :
        out[i].rv = out[k].rv => \A j \in i..k : out[j].rv = out[i].rv

\* C2: the output of one revision is contiguous on stdout: a worker's buffer holds
\* the block of exactly one revision when it is printed and is empty otherwise, at
\* most one worker is inside print at a time, and the tokens of two revisions are
\* never interleaved.
C2_RevisionOutputContiguous ==
    /\ Cardinality(Printing) <= 1
    /\ \A id \in Printing : lock = id
    /\ \A id \in Ids :
          IF work[id].mode \in {"print", "printing"}
          THEN /\ work[id].rv # <<>>
               /\ work[id].buf = BlockOfRevision(work[id])
          ELSE work[id].buf = <<>>
    /\ Contiguous(stdout)

\* one worker is in the middle of its write while another waits with its block
C2_Witness ==
    \E a \in Ids : \E b \in Ids :
        /\ a # b
        /\ work[a].mode = "printing" /\ work[a].written >= 1
        /\ work[a].written < Len(work[a].buf)
        /\ work[b].mode = "print" /\ work[b].buf # <<>>

\* the blocks on stdout: the maximal runs of tokens of one revision
RECURSIVE BlocksOf(_, _, _)
BlocksOf(out, i, cur) ==
    IF i > Len(out) THEN (IF cur = <<>> THEN <<>> ELSE <<cur>>)
    ELSE IF i > 1 /\ out[i].rv # out[i - 1].rv
         THEN <<cur>> \o BlocksOf(out, i + 1, <<out[i].t>>)
         ELSE BlocksOf(out, i + 1, Append(cur, out[i].t))

StdoutBlocks == BlocksOf(stdout, 1, <<>>)

\* the multiset of the elements of a sequence
BagOf(seq) ==
    [x \in { seq[i] : i \in 1..Len(seq) } |-> Cardinality({ i \in 1..Len(seq) : seq[i] = x })]

\* the blocks search_dump_reader writes for one range, run alone to its return
RECURSIVE BlocksOfRun(_)
BlocksOfRun(w) ==
    LET w1 == RunWorker(w)
    IN  IF w1.mode # "print" THEN <<>>
        ELSE (IF w1.buf = <<>> THEN <<>> ELSE <<w1.buf>>) \o BlocksOfRun(AfterPrint(w1))

\* the blocks of the inline path: every file as the one range [0, u64::MAX)
RECURSIVE InlineBlocks(_)
InlineBlocks(f) ==
    IF f > Len(files) THEN <<>>
    ELSE BlocksOfRun([NewWorker(f, 0, U64Max) EXCEPT !.mode = "outer"]) \o InlineBlocks(f + 1)

RevisionTags(f) ==
    { j \in 1..Len(files[f].evs) :
          files[f].evs[j].k = "start" /\ files[f].evs[j].n = "revision" }

\* the <page> tag of the page that encloses the revision at event r
PageOf(f, r) ==
    CHOOSE p \in PageTags(f) : p < r /\ \A q \in PageTags(f) : q < r => q <= p

\* the <title> and the <ns> of the page at event p, the first <id> of the revision
\* at event r, the <id> of its contributor
TitleOf(f, p) == Ev(files[f].evs, SkipTo(files[f].evs, "title", p) + 1).v
NsOf(f, p) == Ev(files[f].evs, SkipTo(files[f].evs, "ns", p) + 1).v
FirstIdOf(f, r) == files[f].evs[r + 2].v
HasContributor(f, r) == Ev(files[f].evs, r + 4).n = "contributor"
ContributorIdOf(f, r) == files[f].evs[r + 6].v

\* the <text> of the revision at event r is the empty element
EmptyText(f, r) ==
    LET t == SkipTo(files[f].evs, "text", r + 1)
    IN  Ev(files[f].evs, t).k = "empty"

\* the regex matches in the text of the revision at event r
HasMatch(f, r) == ~EmptyText(f, r) /\ ReMatches(TextOfRevision(files[f].evs, r)) # <<>>

\* the namespace filter is on and rejects the page at event p
FilteredOut(f, p) == restrict.some /\ NsOf(f, p) \notin restrict.ns

\* a worker entered the revision arm for the revision at event r
Scanned(f, r) == \E id \in PartsOf(f) : \E k \in 1..Len(work[id].revs) : work[id].revs[k] = r

\* stdout holds output of the revision at event r
Written(f, r) == \E k \in 1..Len(stdout) : stdout[k].rv = <<f, r>>

\* the revision at event r has a <text> child of its own
HasOwnText(f, r) ==
    LET evs == files[f].evs
        t   == SkipTo(evs, "text", r + 1)
    IN  /\ Ev(evs, t).k # "eof"
        /\ \A j \in (r + 1)..t : ~(evs[j].k = "end" /\ evs[j].n = "revision")

\* every revision of the file has its <text>, as the export schema has it
SchemaConforming(f) == \A r \in RevisionTags(f) : HasOwnText(f, r)

\* when the search of a file of the schema has returned Ok the revision at event r
\* was scanned, and written if the regex matches in it
ProcessedNormally(f, r) ==
    (result = "ok" /\ SchemaConforming(f)) =>
        Scanned(f, r) /\ (HasMatch(f, r) => Written(f, r))

\* C16: with restrict_namespaces set, no revision of a page whose <ns> is not in
\* the set produces output, its revisions are not scanned, and the pages that
\* follow it in the stream are still processed normally.
C16_FilteredPagesAreSkipped ==
    restrict.some =>
        \A f \in 1..Len(files) : \A r \in RevisionTags(f) :
            IF FilteredOut(f, PageOf(f, r))
            THEN ~Scanned(f, r) /\ ~Written(f, r)
            ELSE ProcessedNormally(f, r)

\* a page that passes the filter was written although it follows a rejected page
C16_Witness ==
    /\ restrict.some /\ result = "ok"
    /\ \E f \in 1..Len(files) : \E r \in RevisionTags(f) : \E q \in RevisionTags(f) :
          /\ r < q
          /\ FilteredOut(f, PageOf(f, r)) /\ HasMatch(f, r)
          /\ ~FilteredOut(f, PageOf(f, q)) /\ Written(f, q)

\* C17: a revision whose <text> is an empty element produces no output whatever
\* the regex, raises no error, and the revisions and pages after it are still
\* processed.
C17_EmptyTextElementYieldsNothing ==
    \A f \in 1..Len(files) : \A r \in RevisionTags(f) :
        EmptyText(f, r) =>
            /\ ~Written(f, r)
            /\ \A id \in PartsOf(f) :
                  /\ work[id].rv # <<f, r>>
                  /\ ~(work[id].mode \in {"err", "panic"} /\ work[id].pos = r)
            /\ \A q \in RevisionTags(f) :
                  (q > r /\ ~FilteredOut(f, PageOf(f, q))) => ProcessedNormally(f, q)

\* the empty pattern, which matches the empty string, and an empty <text /> that
\* was scanned, with a later revision written
C17_Witness ==
    /\ regex = "" /\ result = "ok"
    /\ \E f \in 1..Len(files) : \E r \in RevisionTags(f) : \E q \in RevisionTags(f) :
          /\ EmptyText(f, r) /\ Scanned(f, r)
          /\ q > r /\ Written(f, q)

\* what a block of the revision at event r starts with, colours aside
HeadOf(f, r) == (TitleOf(f, PageOf(f, r)) \o <<"@">>) \o FirstIdOf(f, r)

\* stdout[k] is the first token of a block
BlockStart(k) == k = 1 \/ stdout[k].rv # stdout[k - 1].rv

\* the text octets of the block that starts at stdout[k]
BlockTextAt(k) ==
    LET m == CHOOSE m \in k..Len(stdout) :
                 /\ \A j \in k..m : stdout[j].rv = stdout[k].rv
                 /\ m = Len(stdout) \/ stdout[m + 1].rv # stdout[k].rv
    IN  Strip([j \in 1..(m - k + 1) |-> stdout[k + j - 1].t])

\* C18: every block written for a revision carries the title of the page that
\* encloses the revision and the first <id> inside the revision (not the
\* contributor's id, not the id of another revision): the blocks in the workers'
\* buffers and the blocks on stdout, complete or being written, begin with
\* title@id of their revision.
C18_BlockCarriesTitleAndFirstId ==
    /\ \A id \in Ids :
          (work[id].mode \in {"print", "printing"} /\ work[id].buf # <<>>) =>
              IsPrefix(HeadOf(work[id].rv[1], work[id].rv[2]), Strip(work[id].buf))
    /\ \A k \in 1..Len(stdout) :
          BlockStart(k) =>
              LET head == HeadOf(stdout[k].rv[1], stdout[k].rv[2])
                  text == BlockTextAt(k)
              IN  IsPrefix(head, text) \/ IsPrefix(text, head)

\* both revisions of a page were written, one of them with a contributor whose id
\* differs from the revision's
C18_Witness ==
    /\ result = "ok"
    /\ \E f \in 1..Len(files) : \E r \in RevisionTags(f) : \E q \in RevisionTags(f) :
          /\ r # q /\ PageOf(f, r) = PageOf(f, q)
          /\ HasContributor(f, r) /\ ContributorIdOf(f, r) # FirstIdOf(f, r)
          /\ Written(f, r) /\ Written(f, q)

\* the closure of a compressed file has returned
ClosureReturned(f) ==
    IsCompressed(files[f]) /\ child[f].proc # "none" /\ fileSt[f] \in {"ok", "err", "panic"}

\* C19: whenever the decompressor exits with a non-zero status the search of the
\* file ends with SubCommandTerminatedUnsuccessfully carrying the status and the
\* captured stderr, whatever the decompressor wrote to stdout before.
C19_NonZeroExitIsReported ==
    \A f \in 1..Len(files) :
        (ClosureReturned(f) /\ files[f].exit # 0) =>
            child[f].res = [e |-> "SubCommandTerminatedUnsuccessfully",
                            status |-> files[f].exit, stderr |-> files[f].stderr]

\* C20: on every exit path of the worker of a compressed file the decompressor is
\* released before the worker finishes: its stdout is closed and it has been
\* waited for.
C20_DecompressorReleasedOnEveryExit ==
    \A f \in 1..Len(files) :
        ClosureReturned(f) => child[f].out = "closed" /\ child[f].proc = "reaped"

-----------------------------------------------------------------------------
(* get_dump_files: the dump-file resolver *)

\* bound of the resolver specification
MaxEntries == 4      \* a directory holds at most MaxEntries entries

Suffix7z == <<".", "7", "z">>
SuffixBz2 == <<".", "b", "z", "2">>

\* the octet of a character of a file name
Byte(c) ==
    CASE c = "-" -> 45 [] c = "." -> 46 [] c = "2" -> 50 [] c = "7" -> 55
      [] c = "a" -> 97 [] c = "b" -> 98 [] c = "d" -> 100 [] c = "v" -> 118
      [] c = "w" -> 119 [] c = "x" -> 120 [] c = "z" -> 122

\* mutant: the order of str reversed
RECURSIVE StrLess_Descending(_, _)
StrLess_Descending(a, b) ==
    IF a = <<>> THEN FALSE
    ELSE IF b = <<>> THEN TRUE
    ELSE IF Byte(a[1]) # Byte(b[1]) THEN Byte(a[1]) > Byte(b[1])
    ELSE StrLess_Descending(Tail(a), Tail(b))

\* a < b for String: lexicographic by octets, a proper prefix is less
RECURSIVE StrLess(_, _)
StrLess(a, b) ==
    IF b = <<>> THEN FALSE
    ELSE IF a = <<>> THEN TRUE
    ELSE IF Byte(a[1]) # Byte(b[1]) THEN Byte(a[1]) < Byte(b[1])
    ELSE StrLess(Tail(a), Tail(b))

\* str::starts_with, str::ends_with
StartsWith(s, p) == Len(p) <= Len(s) /\ SubSeq(s, 1, Len(p)) = p
EndsWith(s, suf) == Len(suf) <= Len(s) /\ SubSeq(s, Len(s) - Len(suf) + 1, Len(s)) = suf

\* get_stem: s.strip_suffix(".7z").or_else(|| s.strip_suffix(".bz2")).unwrap_or(s)
GetStem(s) ==
    IF EndsWith(s, Suffix7z) THEN SubSeq(s, 1, Len(s) - Len(Suffix7z))
    ELSE IF EndsWith(s, SuffixBz2) THEN SubSeq(s, 1, Len(s) - Len(SuffixBz2))
    ELSE s

Range(seq) == { seq[k] : k \in 1..Len(seq) }

RECURSIVE SortSet(_)
SortSet(S) ==
    IF S = {} THEN <<>>
    ELSE LET m == CHOOSE x \in S : \A y \in S \ {x} : StrLess(x, y)
         IN  <<m>> \o SortSet(S \ {m})

\* dump_files.sort_unstable(): the paths of one directory are pairwise different,
\* so the sorted vector is the one ascending sequence of its elements
SortUnstable(seq) == SortSet(Range(seq))

\* Vec::remove(k), k counted from 0
Remove(seq, k) == SubSeq(seq, 1, k) \o SubSeq(seq, k + 2, Len(seq))

\* get_dump_files, from the call to the match on fs::metadata(dump_file_or_prefix):
\* an existing regular file is the whole list; something else that exists, and a
\* prefix whose parent is not a directory, is DumpFileOrPrefixInvalid; an error
\* other than NotFound is returned as Io
ResMetadata ==
    /\ rpc = "metadata"
    /\ IF fs.stat = "file"
       THEN /\ dump_files' = <<fs.arg>>
            /\ total_size' = (CHOOSE e \in fs.entries : e.name = fs.arg).len
            /\ rpc' = "check"
            /\ UNCHANGED <<unread, rres>>
       ELSE IF fs.stat = "notfound" /\ fs.parent = "dir"
       THEN /\ unread' = fs.entries
            /\ rpc' = "read_dir"
            /\ UNCHANGED <<dump_files, total_size, rres>>
       ELSE /\ rres' = [tag |-> IF fs.stat \in {"dir", "notfound"}
                                THEN "DumpFileOrPrefixInvalid" ELSE "Io"]
            /\ rpc' = "returned"
            /\ UNCHANGED <<dump_files, total_size, unread>>
    /\ UNCHANGED <<fs, di>>
    /\ UNCHANGED <<color, onlyTitle, fvars, dvars, pvars, cvars>>

\* one entry of `for entry in fs::read_dir(parent_dir)?`, in the order the
\* directory yields them
ResReadDir ==
    /\ rpc = "read_dir"
    /\ \E e \in unread :
          /\ unread' = unread \ {e}
          /\ IF e.file /\ StartsWith(e.name, fs.arg)
             THEN /\ dump_files' = Append(dump_files, e.name)
                  /\ total_size' = total_size + e.len
             ELSE UNCHANGED <<dump_files, total_size>>
    /\ UNCHANGED <<fs, di, rpc, rres>>
    /\ UNCHANGED <<color, onlyTitle, fvars, dvars, pvars, cvars>>

\* dump_files.sort_unstable(); let mut i = 0
ResSort ==
    /\ rpc = "read_dir" /\ unread = {}
    /\ dump_files' = SortUnstable(dump_files)
    /\ di' = 0
    /\ rpc' = "dedup"
    /\ UNCHANGED <<fs, total_size, unread, rres>>
    /\ UNCHANGED <<color, onlyTitle, fvars, dvars, pvars, cvars>>

\* mutant: of two neighbours with one stem the first is removed
ResDedup_RemovesFirst ==
    /\ rpc = "dedup"
    /\ IF di + 1 < Len(dump_files)
       THEN IF GetStem(dump_files[di + 1]) = GetStem(dump_files[di + 2])
            THEN dump_files' = Remove(dump_files, di) /\ UNCHANGED <<di, rpc>>
            ELSE di' = di + 1 /\ UNCHANGED <<dump_files, rpc>>
       ELSE rpc' = "check" /\ UNCHANGED <<dump_files, di>>
    /\ UNCHANGED <<fs, total_size, unread, rres>>
    /\ UNCHANGED <<color, onlyTitle, fvars, dvars, pvars, cvars>>

\* one test of `while i + 1 < dump_files.len()` and one pass through its body
ResDedup ==
    /\ rpc = "dedup"
    /\ IF di + 1 < Len(dump_files)
       THEN IF GetStem(dump_files[di + 1]) = GetStem(dump_files[di + 2])
            THEN dump_files' = Remove(dump_files, di + 1) /\ UNCHANGED <<di, rpc>>
            ELSE di' = di + 1 /\ UNCHANGED <<dump_files, rpc>>
       ELSE rpc' = "check" /\ UNCHANGED <<dump_files, di>>
    /\ UNCHANGED <<fs, total_size, unread, rres>>
    /\ UNCHANGED <<color, onlyTitle, fvars, dvars, pvars, cvars>>

\* mutant: the list is returned without the test for emptiness
ResReturn_NoEmptyCheck ==
    /\ rpc = "check"
    /\ rres' = [tag |-> "Ok", list |-> dump_files, size |-> total_size]
    /\ rpc' = "returned"
    /\ UNCHANGED <<fs, dump_files, total_size, di, unread>>
    /\ UNCHANGED <<color, onlyTitle, fvars, dvars, pvars, cvars>>

\* `if dump_files.is_empty() { return Err(NoDumpFilesFound) }  Ok((dump_files, total_size))`
ResReturn ==
    /\ rpc = "check"
    /\ rres' = IF dump_files = <<>>
               THEN [tag |-> "NoDumpFilesFound"]
               ELSE [tag |-> "Ok", list |-> dump_files, size |-> total_size]
    /\ rpc' = "returned"
    /\ UNCHANGED <<fs, dump_files, total_size, di, unread>>
    /\ UNCHANGED <<color, onlyTitle, fvars, dvars, pvars, cvars>>

\* directory entries: a regular file with its length, or a subdirectory
FileEntry(name, len) == [name |-> name, file |-> TRUE, len |-> len]
DirEntry(name) == [name |-> name, file |-> FALSE, len |-> 0]

Wx == <<"w", "x">>

\* the entries a directory is drawn from: the three variants of the stem wx, names
\* that sort between them, a .bz2 of the .7z, a name outside every prefix, and a
\* subdirectory; the lengths are different powers of two
Candidates ==
    { FileEntry(Wx, 1), FileEntry(Wx \o Suffix7z, 2), FileEntry(Wx \o SuffixBz2, 4),
      FileEntry(Wx \o <<"-", "a">>, 8), FileEntry(Wx \o <<".", "a">>, 16),
      FileEntry((Wx \o Suffix7z) \o SuffixBz2, 32), FileEntry(<<"v">>, 64),
      DirEntry(<<"w", "d">>) }

Directories == { S \in SUBSET Candidates : Cardinality(S) <= MaxEntries }

\* prefixes that name no entry
Prefixes == { <<"w">>, <<"w", "x", ".">>, <<"z">> }

\* the argument and what the file system holds for it:
\*   stat    fs::metadata(dump_file_or_prefix): "file" | "dir" (exists, not a regular
\*           file) | "notfound" | "notadir" | "denied" (errors)
\*   parent  what the directory part of the argument is: "dir" | "file" | "missing"
\*   arg     the file name of the argument     entries  the entries of the parent
\* With a regular file as the directory part metadata fails with NotFound on one
\* platform and with NotADirectory on another.
ResInputs ==
    { [stat |-> "notfound", parent |-> "dir", arg |-> p, entries |-> S] :
          p \in Prefixes, S \in Directories }
    \cup UNION { { [stat |-> IF e.file THEN "file" ELSE "dir", parent |-> "dir",
                    arg |-> e.name, entries |-> S] : e \in S } : S \in Directories }
    \cup { [stat |-> st, parent |-> "file", arg |-> <<"w">>, entries |-> {}] :
              st \in {"notfound", "notadir"} }
    \cup { [stat |-> "notfound", parent |-> "missing", arg |-> <<"w">>, entries |-> {}],
           [stat |-> "denied", parent |-> "dir", arg |-> <<"w">>, entries |-> {}] }

ResInit ==
    /\ color = FALSE /\ onlyTitle = FALSE
    /\ fText = <<>> /\ fMatches = <<>> /\ fIdx = 0 /\ fSt = FmtStart(<<>>) /\ fPc = "idle"
    /\ DriverIdle
    /\ PartIdle
    /\ PipeIdle
    /\ fs \in ResInputs
    /\ dump_files = <<>>
    /\ total_size = 0
    /\ di = 0
    /\ unread = {}
    /\ rpc = "metadata"
    /\ rres = [tag |-> "none"]

ResNext ==
    \/ ResMetadata
    \/ ResReadDir
    \/ ResSort
    \/ ResDedup
    \/ ResReturn

SpecRes == ResInit /\ [][ResNext]_vars

-----------------------------------------------------------------------------
(* claims about the resolver, checked under SpecRes *)

\* the names of the regular files of the directory that begin with the prefix
Matching == { e.name : e \in { x \in fs.entries : x.file /\ StartsWith(x.name, fs.arg) } }

\* get_dump_files went through the directory and returned a list
ResolvedPrefix == rpc = "returned" /\ rres.tag = "Ok" /\ fs.stat = "notfound"

\* the matching files that share a stem
Variants(stem) == { m \in Matching : GetStem(m) = stem }

\* the variant of a stem that is to stay: plain, else .7z, else .bz2
Preferred(stem) ==
    IF stem \in Variants(stem) THEN stem
    ELSE IF stem \o Suffix7z \in Variants(stem) THEN stem \o Suffix7z
    ELSE stem \o SuffixBz2

\* C11: among the matching files that share a stem the returned list holds exactly
\* one, the plain file if present, otherwise the .7z, otherwise the .bz2, whatever
\* other matching names the directory holds.
C11_OneVariantPerStem ==
    ResolvedPrefix =>
        \A n \in Matching :
            Variants(GetStem(n)) \cap Range(rres.list) = { Preferred(GetStem(n)) }

\* both compressed variants of a stem match the prefix and no plain variant exists
BothCompressed(stem) ==
    /\ stem \o Suffix7z \in Matching
    /\ stem \o SuffixBz2 \in Matching
    /\ ~\E e \in fs.entries : e.name = stem

Stems == { GetStem(n) : n \in Matching }

\* a matching name sorts between a and b
SortsBetween(a, b) == \E n \in Matching : StrLess(a, n) /\ StrLess(n, b)

\* C12 (as amended): when the .bz2 and the .7z variant of a stem both match and no
\* plain variant exists, the list holds the .7z file, and it holds the .bz2 file
\* only when another matching name sorts between the two.
C12_SevenZipPreferredToBzip2 ==
    ResolvedPrefix =>
        \A stem \in Stems :
            BothCompressed(stem) =>
                /\ stem \o Suffix7z \in Range(rres.list)
                /\ stem \o SuffixBz2 \in Range(rres.list)
                       <=> SortsBetween(stem \o Suffix7z, stem \o SuffixBz2)

\* the directory holds wx.7z and wx.bz2 next to each other, and wx.7z is returned
C12_Witness ==
    /\ ResolvedPrefix
    /\ BothCompressed(Wx)
    /\ ~SortsBetween(Wx \o Suffix7z, Wx \o SuffixBz2)
    /\ Wx \o Suffix7z \in Range(rres.list)
    /\ Wx \o SuffixBz2 \notin Range(rres.list)
    /\ Len(rres.list) >= 2

\* C12 as stated: the list holds the .bz2 file and not the .7z file.
C12_Bzip2PreferredToSevenZip ==
    ResolvedPrefix =>
        \A stem \in Stems :
            BothCompressed(stem) =>
                /\ stem \o SuffixBz2 \in Range(rres.list)
                /\ stem \o Suffix7z \notin Range(rres.list)

RECURSIVE SumOfSizes(_)
SumOfSizes(S) ==
    IF S = {} THEN 0
    ELSE LET e == CHOOSE x \in S : TRUE IN e.len + SumOfSizes(S \ {e})

\* C13: the size returned with the list is the sum of the sizes of exactly the
\* files in the list, also when variants of a stem were removed.
C13_SizeIsSumOfReturnedFiles ==
    (rpc = "returned" /\ rres.tag = "Ok") =>
        rres.size = SumOfSizes({ e \in fs.entries : e.name \in Range(rres.list) })

\* C14: get_dump_files never returns Ok with an empty list; when the argument does
\* not exist and no regular file of the directory begins with the prefix it fails
\* with NoDumpFilesFound.
C14_NeverOkWithEmptyList ==
    /\ rres.tag = "Ok" => rres.list # <<>>
    /\ (rpc = "returned" /\ fs.stat = "notfound" /\ fs.parent = "dir" /\ Matching = {})
           => rres.tag = "NoDumpFilesFound"

\* a directory with entries, none of them a regular file that begins with the prefix
C14_Witness ==
    /\ rpc = "returned" /\ rres.tag = "NoDumpFilesFound"
    /\ \E e \in fs.entries : ~e.file /\ StartsWith(e.name, fs.arg)
    /\ \E e \in fs.entries : e.file /\ ~StartsWith(e.name, fs.arg)

\* C15: DumpFileOrPrefixInvalid, and no list, when the argument names something
\* that exists but is not a regular file and when the directory part of a prefix
\* is not a directory.
C15_InvalidFileOrPrefix ==
    (rpc = "returned" /\ (fs.stat = "dir" \/ fs.parent # "dir"))
        => rres.tag = "DumpFileOrPrefixInvalid"


-----------------------------------------------------------------------------
(* search_dump: errors, the pool, the ranges *)

\* every work item of file f exists and has finished without error
FileSucceeded(f) ==
    IF IsCompressed(files[f])
    THEN /\ <<f, 0>> \in Ids /\ work[<<f, 0>>].mode = "ok"
         /\ child[f].proc = "reaped" /\ child[f].res.e = "Ok"
    ELSE /\ PartsOf(f) # {}
         /\ \A id \in PartsOf(f) : work[id].mode = "ok"

\* a work item has failed: a range, or the closure of a compressed file
AnyFailure ==
    \/ \E id \in Ids : work[id].mode = "err"
    \/ \E f \in 1..Len(files) : fileSt[f] = "err"

\* C21: search_dump returns Ok only if every work item (every range of every
\* plain file and every compressed file) finished without error; when a work item
\* has failed the call does not return Ok but an error.
C21_OkOnlyIfEveryItemSucceeded ==
    /\ result = "ok" =>
          /\ \A f \in 1..Len(files) : FileSucceeded(f)
          /\ error = NoError
    /\ (pc = "returned" /\ AnyFailure) =>
          /\ result \in {"err", "panic"}
          /\ result = "err" => error \in { errlog[k] : k \in 1..Len(errlog) }

\* the search has returned an error raised by one range of a file while another
\* range of the file had finished without error
C21_Witness ==
    /\ pc = "returned" /\ result = "err" /\ error # NoError
    /\ \E a \in Ids : \E b \in Ids :
          /\ a[1] = b[1] /\ work[a].mode = "ok" /\ work[a].pages # <<>>
          /\ work[b].mode = "err"

\* C22: while search_dump runs with thread_count = n >= 1, at most n work items
\* are being processed at the same time.
C22_AtMostThreadCountItemsAtOnce ==
    threadCount >= 1 => Cardinality(Running) <= threadCount

\* C23: a second call of search_dump in the process with thread_count > 1 runs
\* with a pool sized to its thread_count, returns a result (it does not panic),
\* and when it returns Ok it has written the multiset of revision blocks that the
\* input and the options determine, as the first call did.
C23_SecondCallRunsLikeTheFirst ==
    (call = "second" /\ threadCount > 1) =>
        /\ result # "panic"
        /\ pc = "pool" => PoolSize = threadCount
        /\ result = "ok" => BagOf(StdoutBlocks) = BagOf(InlineBlocks(1))

\* C24: when search_dump succeeds, compressed_files_found in the result is true
\* if and only if at least one of the dump files has a name ending in .7z or .bz2.
C24_FlagIffCompressedFileGiven ==
    result = "ok" =>
        (compressed_file_found <=> \E f \in 1..Len(files) : IsCompressed(files[f]))

\* a successful search of a compressed and a plain file, both with output
C24_Witness ==
    /\ pc = "returned" /\ result = "ok" /\ compressed_file_found
    /\ \E f \in 1..Len(files) : \E g \in 1..Len(files) :
          /\ IsCompressed(files[f]) /\ ~IsCompressed(files[g])
          /\ \E k \in 1..Len(stdout) : stdout[k].rv[1] = f
          /\ \E k \in 1..Len(stdout) : stdout[k].rv[1] = g

\* the elements of a sequence
Elems(seq) == { seq[k] : k \in 1..Len(seq) }

\* the pages of file f whose <page> tag begins in [start, end)
PagesStartingIn(f, start, end) ==
    { j \in PageTags(f) : start <= Offset(files[f].evs, j) /\ Offset(files[f].evs, j) < end }

\* file offset of the first octet after the </page> of the page at event p
PageEndOffset(f, p) ==
    LET evs == files[f].evs
        c   == CHOOSE c \in p..Len(evs) :
                   /\ evs[c].k = "end" /\ evs[c].n = "page"
                   /\ \A d \in p..(c - 1) : ~(evs[d].k = "end" /\ evs[d].n = "page")
    IN  Offset(evs, c + 1)

\* C25: a page is processed by the worker of the range [start, end) that contains
\* the first octet of its <page> tag: a worker takes no page whose tag starts at or
\* after its end (a page that starts exactly at a boundary goes to the later
\* range) and scans revisions of its own pages only; a worker that has returned Ok
\* has taken every page that starts in its range and has scanned all revisions of
\* those pages that pass the filter, also of a page that ends after `end`.
C25_PageBelongsToRangeOfItsTag ==
    \A id \in Ids :
        LET w == work[id]
            f == id[1]
        IN  /\ Elems(w.pages) \subseteq PagesStartingIn(f, w.start, w.end)
            /\ \A r \in Elems(w.revs) : PageOf(f, r) \in Elems(w.pages)
            /\ w.mode = "ok" =>
                  /\ Elems(w.pages) = PagesStartingIn(f, w.start, w.end)
                  /\ SchemaConforming(f) =>
                        \A r \in RevisionTags(f) :
                            (PageOf(f, r) \in Elems(w.pages) /\ ~FilteredOut(f, PageOf(f, r)))
                                => r \in Elems(w.revs)

\* a range has returned Ok after it scanned both revisions of a page that starts
\* before its end and ends after it, and the next range took no page
C25_Witness ==
    \E id \in Ids : \E nx \in Ids : \E p \in PageTags(id[1]) :
        /\ work[id].mode = "ok" /\ work[nx].mode = "ok"
        /\ nx[1] = id[1] /\ work[nx].start = work[id].end /\ work[nx].pages = <<>>
        /\ p \in Elems(work[id].pages)
        /\ PageEndOffset(id[1], p) > work[id].end
        /\ Cardinality({ r \in Elems(work[id].revs) : PageOf(id[1], r) = p }) = 2

-----------------------------------------------------------------------------
(* the work partitioner on its own: the ranges of one plain file (SpecPart) *)

\* the longest file of the partitioner specification
MaxFileLen == 400

\* the closure of a plain file was entered: `len` is known, no range was made yet
PartInit ==
    /\ color = FALSE /\ onlyTitle = FALSE
    /\ FmtIdle
    /\ DriverIdle
    /\ ResIdle
    /\ PipeIdle
    /\ plen \in 1..MaxFileLen
    /\ pranges = <<>>

\* the range of the next i in 0..parts
PartRange ==
    /\ plen >= 1
    /\ Len(pranges) < Parts(plen)
    /\ pranges' = Append(pranges, RangeOfPart(plen, Len(pranges)))
    /\ UNCHANGED plen
    /\ UNCHANGED <<color, onlyTitle, fvars, dvars, rvars, cvars>>

PartNext == PartRange

SpecPart == PartInit /\ [][PartNext]_vars

\* C26: for every plain file length L >= 1 the ranges that search_dump computes
\* satisfy: the first range starts at 0, consecutive ranges abut, every range has
\* start < end, no range is longer than the part limit (500 MiB), and once all
\* `parts` ranges are made their union covers [0, L).
C26_RangesPartitionTheFile ==
    plen >= 1 =>
        /\ Len(pranges) >= 1 => pranges[1].start = 0
        /\ \A i \in 1..(Len(pranges) - 1) : pranges[i].end = pranges[i + 1].start
        /\ \A i \in 1..Len(pranges) :
              /\ pranges[i].start < pranges[i].end
              /\ pranges[i].end - pranges[i].start <= PartLimit
        /\ Len(pranges) = Parts(plen) => pranges[Len(pranges)].end >= plen

\* a file one octet longer than two full parts was cut into its three ranges
C26_Witness ==
    /\ plen = 2 * PartLimit + 1
    /\ Len(pranges) = 3
    /\ pranges[3].end >= plen

-----------------------------------------------------------------------------
(* search_dump: the empty file, the end of the input, revisions without text,
   the error that is returned *)

\* C27: for a plain file of length 0 the partitioner yields exactly one range and
\* the search of the file completes without error and without output, on the
\* pooled path as on the inline path.
C27_EmptyFileIsOneEmptyRange ==
    \A f \in 1..Len(files) :
        (~IsCompressed(files[f]) /\ FileLen(files[f].evs) = 0
            /\ (fileSt[f] # "pending" \/ PartsOf(f) # {})) =>
                /\ fileSt[f] \notin {"panic", "err"}
                /\ Cardinality(PartsOf(f)) = 1
                /\ \A id \in PartsOf(f) : work[id].mode \notin {"panic", "err"}
                /\ \A k \in 1..Len(stdout) : stdout[k].rv[1] # f

\* the page at event p of file f has its </page>
PageClosed(f, p) ==
    \E c \in (p + 1)..Len(files[f].evs) :
        /\ files[f].evs[c].k = "end" /\ files[f].evs[c].n = "page"
        /\ \A d \in (p + 1)..(c - 1) : d \notin PageTags(f)

\* C28: end of input inside a page (after <page> and before its </page>) makes the
\* worker fail and never ends it silently: a worker that has returned Ok has seen
\* the </page> of every page it entered.
C28_EofInsidePageIsAnError ==
    \A id \in Ids :
        work[id].mode = "ok" => \A p \in Elems(work[id].pages) : PageClosed(id[1], p)

\* C29: the extractor never reads past the end of the current revision to find
\* that revision's <text>: a revision that has no <text> child yields no record,
\* no block is formatted or written under its id, and the revision that follows it
\* in the page is scanned as a revision of its own.
C29_NoReadingPastEndOfRevision ==
    \A f \in 1..Len(files) : \A r \in RevisionTags(f) :
        ~HasOwnText(f, r) =>
            /\ ~Written(f, r)
            /\ \A id \in PartsOf(f) : work[id].rv # <<f, r>>
            /\ \A id \in PartsOf(f) : \A q \in RevisionTags(f) :
                  (work[id].mode = "ok" /\ r \in Elems(work[id].revs)
                      /\ q > r /\ PageOf(f, q) = PageOf(f, r))
                          => q \in Elems(work[id].revs)

\* C30: when several workers fail during one search, the error search_dump
\* returns is the first error that was raised, not the error of a worker that
\* failed later.
C30_FirstErrorIsReturned ==
    result = "err" => error = errlog[1]

-----------------------------------------------------------------------------
(* search_dump: what the other workers do after an error *)

\* C31: once a worker's error has been raised, every worker that is still
\* running writes at most the revision it is processing at that moment and then
\* stops: from then on no worker enters a further revision of its range.
C31_NoFurtherRevisionAfterAnError ==
    [][ (errlog # <<>> /\ errlog' # <<>>) =>
            \A id \in Ids :
                Active(work[id]) => Len(work'[id].revs) <= Len(work[id].revs) ]_vars

-----------------------------------------------------------------------------
(* search_dump_reader: a revision whose formatting fails *)

\* find_in_text on the revision at event r of file f, from an empty buffer
FormattedRevision(f, r) ==
    LET text == TextOfRevision(files[f].evs, r)
    IN  FindInText(<<>>, TitleOf(f, PageOf(f, r)), FirstIdOf(f, r), text, ReMatches(text))

\* the complete block of the revision at event r
CompleteBlock(f, r) ==
    IF onlyTitle
    THEN TitleOnly(<<>>, TitleOf(f, PageOf(f, r)), FirstIdOf(f, r),
                   ReMatches(TextOfRevision(files[f].evs, r)))
    ELSE FormattedRevision(f, r).buf

\* formatting the revision at event r ends with an error
FormatFails(f, r) == ~onlyTitle /\ FormattedRevision(f, r).err

\* the blocks on stdout with the revision they belong to, in order
RECURSIVE RunsOf(_, _, _)
RunsOf(out, i, cur) ==
    IF i > Len(out) THEN (IF cur.t = <<>> THEN <<>> ELSE <<cur>>)
    ELSE IF i > 1 /\ out[i].rv # out[i - 1].rv
         THEN <<cur>> \o RunsOf(out, i + 1, [rv |-> out[i].rv, t |-> <<out[i].t>>])
         ELSE RunsOf(out, i + 1, [rv |-> out[i].rv, t |-> Append(cur.t, out[i].t)])

StdoutRuns == RunsOf(stdout, 1, [rv |-> <<>>, t |-> <<>>])

\* C32: when a worker fails while it formats a revision, nothing of that
\* revision's partly built block reaches stdout, and the blocks already written for
\* earlier revisions stay: stdout only ever holds complete revision blocks (or the
\* written part of the block that a worker is writing at that moment).
C32_OnlyCompleteBlocksOnStdout ==
    LET runs == StdoutRuns
    IN  /\ \A b \in 1..Len(runs) :
              LET f   == runs[b].rv[1]
                  r   == runs[b].rv[2]
                  fr  == FormattedRevision(f, r)
                  blk == IF onlyTitle THEN CompleteBlock(f, r) ELSE fr.buf
              IN  /\ onlyTitle \/ ~fr.err
                  /\ IsPrefix(runs[b].t, blk)
                  /\ \/ runs[b].t = blk
                     \/ \E id \in Printing : work[id].rv = <<f, r>>
        /\ \A id \in Ids :
              (work[id].mode = "err" /\ work[id].err = "Utf8") =>
                  LET f == id[1]
                      r == work[id].revs[Len(work[id].revs)]
                  IN  /\ FormatFails(f, r)
                      /\ work[id].buf = <<>>
                      /\ ~Written(f, r)
                      /\ \A q \in Elems(work[id].revs) :
                            (q # r /\ HasMatch(f, q)) =>
                                \E b \in 1..Len(runs) :
                                    /\ runs[b].rv = <<f, q>>
                                    /\ runs[b].t = CompleteBlock(f, q)

\* a worker has failed with a UTF-8 error in a revision whose header was already
\* in its buffer, after it wrote the block of the revision before
C32_Witness ==
    \E id \in Ids :
        /\ work[id].mode = "err" /\ work[id].err = "Utf8"
        /\ LET f == id[1]
               r == work[id].revs[Len(work[id].revs)]
           IN  /\ FormattedRevision(f, r).buf # <<>>
               /\ ~Written(f, r)
               /\ \E q \in Elems(work[id].revs) : q < r /\ Written(f, q)

-----------------------------------------------------------------------------
(* the closure of a compressed file and its decompressor: the pipes (SpecPipe).
   The path on which search_dump_reader reads the child's stdout to its end. *)

\* chunks an OS pipe holds before a write to it blocks
PipeCap == 2

\* the most chunks a decompressor of this specification writes
MaxWrites == 5

\* spawn with stdin, stdout and stderr piped; the closure enters search_dump_reader
PipeInit ==
    /\ color = FALSE /\ onlyTitle = FALSE
    /\ FmtIdle
    /\ DriverIdle
    /\ ResIdle
    /\ PartIdle
    /\ prog \in SeqsUpTo({"out", "err"}, MaxWrites)
    /\ outPipe = 0
    /\ errPipe = 0
    /\ cstate = "running"
    /\ wstate = "scan"

PipeFrame == UNCHANGED <<color, onlyTitle, fvars, dvars, rvars, pvars>>

\* the child writes its next chunk; the write blocks while the pipe is full
ChildWrite ==
    /\ cstate = "running" /\ prog # <<>>
    /\ IF Head(prog) = "out"
       THEN outPipe < PipeCap /\ outPipe' = outPipe + 1 /\ UNCHANGED errPipe
       ELSE errPipe < PipeCap /\ errPipe' = errPipe + 1 /\ UNCHANGED outPipe
    /\ prog' = Tail(prog)
    /\ UNCHANGED <<cstate, wstate>>
    /\ PipeFrame

\* the child has written everything: it exits, which closes its ends of the pipes
ChildExit ==
    /\ cstate = "running" /\ prog = <<>>
    /\ cstate' = "exited"
    /\ UNCHANGED <<prog, outPipe, errPipe, wstate>>
    /\ PipeFrame

\* search_dump_reader reads from the child's stdout (through buf_reader)
WorkerReadOut ==
    /\ wstate = "scan" /\ outPipe > 0
    /\ outPipe' = outPipe - 1
    /\ UNCHANGED <<prog, errPipe, cstate, wstate>>
    /\ PipeFrame

\* the read returns 0: end of stream, search_dump_reader returns Ok, and the
\* closure calls handle.wait_with_output(), which closes the child's stdin
WorkerEofOut ==
    /\ wstate = "scan" /\ outPipe = 0 /\ cstate = "exited"
    /\ wstate' = "wait"
    /\ UNCHANGED <<prog, outPipe, errPipe, cstate>>
    /\ PipeFrame

\* wait_with_output reads the child's stderr
WorkerReadErr ==
    /\ wstate = "wait" /\ errPipe > 0
    /\ errPipe' = errPipe - 1
    /\ UNCHANGED <<prog, outPipe, cstate, wstate>>
    /\ PipeFrame

\* stderr is at its end and the child is waited for
WorkerReap ==
    /\ wstate = "wait" /\ errPipe = 0 /\ cstate = "exited"
    /\ wstate' = "done"
    /\ UNCHANGED <<prog, outPipe, errPipe, cstate>>
    /\ PipeFrame

PipeNext ==
    \/ ChildWrite
    \/ ChildExit
    \/ WorkerReadOut
    \/ WorkerEofOut
    \/ WorkerReadErr
    \/ WorkerReap

\* the child and the thread of the closure both run whenever they can
SpecPipe == PipeInit /\ [][PipeNext]_vars /\ WF_vars(PipeNext)

\* C33: the worker of a compressed file eventually finishes whenever the
\* decompressor would finish provided its pipes are served (every decompressor
\* of this specification writes finitely many chunks and exits): worker and
\* decompressor are never blocked on each other forever.
C33_WorkerOfCompressedFileFinishes ==
    <>(wstate = "done")

-----------------------------------------------------------------------------
(* search_dump: the order of the blocks of one work item *)

\* the work item that entered the revision at event r of file f
WorkerOf(f, r) == CHOOSE id \in PartsOf(f) : r \in Elems(work[id].revs)

\* C34: within one work item the revision blocks reach stdout in the order in
\* which the revisions occur in the input, and the tokens of a block reach stdout
\* in the order in which find_in_text put them in the buffer (match order); only
\* blocks of different work items can be reordered against each other.
C34_BlocksOfOneItemInInputOrder ==
    LET runs == StdoutRuns
    IN  /\ \A a \in 1..Len(runs) : \A b \in (a + 1)..Len(runs) :
              (runs[a].rv[1] = runs[b].rv[1]
                  /\ WorkerOf(runs[a].rv[1], runs[a].rv[2]) = WorkerOf(runs[b].rv[1], runs[b].rv[2]))
                      => runs[a].rv[2] < runs[b].rv[2]
        /\ \A id \in Printing :
              work[id].written >= 1 =>
                  \E b \in 1..Len(runs) :
                      /\ runs[b].rv = work[id].rv
                      /\ runs[b].t = SubSeq(work[id].buf, 1, work[id].written)

\* stdout holds two blocks of one work item in input order, and a block of a
\* later range in front of a block of an earlier range of the file
C34_Witness ==
    LET runs == StdoutRuns
    IN  /\ \E a \in 1..Len(runs) : \E b \in (a + 1)..Len(runs) :
              /\ runs[a].rv[1] = runs[b].rv[1]
              /\ WorkerOf(runs[a].rv[1], runs[a].rv[2]) = WorkerOf(runs[b].rv[1], runs[b].rv[2])
        /\ \E a \in 1..Len(runs) : \E b \in (a + 1)..Len(runs) :
              /\ runs[a].rv[1] = runs[b].rv[1]
              /\ runs[a].rv[2] > runs[b].rv[2]

-----------------------------------------------------------------------------
(* search_dump_reader: no filter, and the empty filter *)

\* C35: an absent restrict_namespaces means no filter: no page is rejected, and
\* when the search of a file of the schema has returned Ok every revision was
\* scanned.  A restrict_namespaces that is present but empty rejects every page
\* that has an <ns> element: no revision is scanned and nothing is written.
C35_AbsentIsNoFilterEmptyIsNone ==
    /\ ~restrict.some =>
          \A f \in 1..Len(files) : \A r \in RevisionTags(f) :
              /\ ~FilteredOut(f, PageOf(f, r))
              /\ ProcessedNormally(f, r)
    /\ (restrict.some /\ restrict.ns = {}) =>
          /\ stdout = <<>>
          /\ \A id \in Ids : work[id].revs = <<>> /\ work[id].buf = <<>>

\* with the empty set a search has returned Ok after its workers took every page
\* of a file in which the regex matches, and wrote nothing
C35_Witness ==
    /\ restrict.some /\ restrict.ns = {}
    /\ pc = "returned" /\ result = "ok" /\ stdout = <<>>
    /\ \E f \in 1..Len(files) :
          /\ Cardinality(PageTags(f)) >= 2
          /\ \A p \in PageTags(f) : \E id \in PartsOf(f) : p \in Elems(work[id].pages)
          /\ \E r \in RevisionTags(f) : HasMatch(f, r)

-----------------------------------------------------------------------------
(* search_dump_reader: a start tag that is not followed by character data *)

\* the start tags of file f whose content the extractor reads with
\* read_str_and_then or read_bytes_and_then: every <title>, every <ns> when the
\* filter is on, the first <id> of every revision and the <text> after it
TagRead(f, j) ==
    LET evs == files[f].evs
    IN  /\ evs[j].k = "start"
        /\ \/ evs[j].n = "title"
           \/ evs[j].n = "ns" /\ restrict.some
           \/ /\ evs[j].n \in {"id", "text"}
              /\ \E r \in RevisionTags(f) :
                    /\ r < j
                    /\ \/ j = SkipTo(evs, "id", r + 1)
                       \/ j = SkipTo(evs, "text", SkipTo(evs, "id", r + 1) + 2)

\* a tag that is read and is not directly followed by a text event
NoTextAfter(f) ==
    { j \in 1..Len(files[f].evs) :
        /\ files[f].evs[j].k = "start"
        /\ files[f].evs[j].n \in {"title", "ns", "id", "text"}
        /\ Ev(files[f].evs, j + 1).k # "text"
        /\ TagRead(f, j) }

\* the filter has rejected the page of event j at an <ns> in front of j
SkippedBefore(f, j) ==
    /\ restrict.some
    /\ \E n \in PageOf(f, j)..(j - 1) :
          /\ files[f].evs[n].k = "start" /\ files[f].evs[n].n = "ns"
          /\ files[f].evs[n + 1].k = "text" /\ files[f].evs[n + 1].v \notin restrict.ns

\* the error for the tag at event j
OnlyTextExpected(f, j) ==
    LET n == files[f].evs[j].n
    IN  IF n = "title" THEN "OnlyTextExpectedInTag(title)"
        ELSE IF n = "ns" THEN "OnlyTextExpectedInTag(ns)"
        ELSE IF n = "id" THEN "OnlyTextExpectedInTag(id)"
        ELSE "OnlyTextExpectedInTag(text)"

\* C36: a <title>, a filtered <ns>, a revision <id> or a <text> start tag that is
\* not directly followed by a text event makes the worker that comes to it fail
\* with OnlyTextExpectedInTag naming that tag; nothing is written for a revision
\* of that page from that tag on, and the worker takes no later page.
C36_TagWithoutTextFails ==
    \A f \in 1..Len(files) : \A j \in NoTextAfter(f) : \A id \in PartsOf(f) :
        LET w == work[id]
            p == PageOf(f, j)
        IN  (p \in Elems(w.pages) /\ ~SkippedBefore(f, j)
                /\ \A o \in NoTextAfter(f) : o >= j) =>
                /\ Returned(w) => (w.mode = "err" /\ w.err = OnlyTextExpected(f, j))
                /\ \A q \in Elems(w.pages) : q <= p
                /\ \A r \in RevisionTags(f) :
                      (PageOf(f, r) = p /\ SkipTo(files[f].evs, "text", r + 1) >= j)
                          => ~Written(f, r) /\ w.rv # <<f, r>>

\* a worker has failed at a <text> tag directly followed by </text>, and the page
\* behind it, in which the regex matches, was taken by no worker
C36_Witness ==
    \E id \in Ids : \E j \in NoTextAfter(id[1]) :
        /\ files[id[1]].evs[j].n = "text"
        /\ work[id].mode = "err" /\ work[id].err = "OnlyTextExpectedInTag(text)"
        /\ pc = "returned" /\ result = "err" /\ stdout = <<>>
        /\ \E q \in PageTags(id[1]) :
              /\ q > j
              /\ \A o \in PartsOf(id[1]) : q \notin Elems(work[o].pages)

-----------------------------------------------------------------------------
(* get_dump_files: what the removal of duplicates leaves *)

\* the matching names that end neither in .7z nor in .bz2
PlainMatching == { n \in Matching : ~EndsWith(n, Suffix7z) /\ ~EndsWith(n, SuffixBz2) }

\* C37: the removal of duplicates never removes a plain file: every regular file
\* whose name begins with the prefix and ends neither in .7z nor in .bz2 is in the
\* list while duplicates are removed and in the list get_dump_files returns; the
\* returned list is in strictly ascending order and no two neighbours in it share
\* a stem.
C37_PlainFilesStayListSorted ==
    /\ (fs.stat = "notfound" /\ rpc \in {"dedup", "check"}) =>
          PlainMatching \subseteq Range(dump_files)
    /\ ResolvedPrefix => PlainMatching \subseteq Range(rres.list)
    /\ (rpc = "returned" /\ rres.tag = "Ok") =>
          \A k \in 1..(Len(rres.list) - 1) :
              /\ StrLess(rres.list[k], rres.list[k + 1])
              /\ GetStem(rres.list[k]) # GetStem(rres.list[k + 1])

\* a list of two plain files was returned from a directory in which one of them
\* has a compressed variant, which was removed
C37_Witness ==
    /\ ResolvedPrefix
    /\ Cardinality(PlainMatching) >= 2
    /\ \E n \in PlainMatching :
          /\ n \o Suffix7z \in Matching
          /\ n \o Suffix7z \notin Range(rres.list)
    /\ Len(rres.list) >= 2

-----------------------------------------------------------------------------
(* find_in_text: the offsets of the slices *)

\* C38: for every text and every sequence of matches find_iter can yield
\* (zero-width matches and matches that end in a newline included) find_in_text
\* has last_match_end <= m.start <= effective end <= m.end <= len(text) at every
\* match, last_match_end lies within the match it was taken from, and the panic
\* "Memchr/Memrchr inconsistency" or a slice out of bounds never happens.
C38_OffsetsInOrderNoPanic ==
    /\ ~fSt.panic
    /\ 0 <= fSt.last_match_end /\ fSt.last_match_end <= Len(fText)
    /\ (fPc = "loop" /\ ~onlyTitle /\ fIdx < Len(fMatches)) =>
          LET m  == fMatches[fIdx + 1]
              ae == ActualMatchEnd(fText, m)
          IN  /\ fSt.last_match_end <= m.s
              /\ m.s <= ae
              /\ ae <= m.e
              /\ m.e <= Len(fText)
    /\ (fIdx >= 1 /\ ~fSt.err) =>
          /\ fMatches[fIdx].s <= fSt.last_match_end
          /\ fSt.last_match_end <= fMatches[fIdx].e

\* a revision was formatted to its end in which a match ends in a newline that
\* is cut off, the next match starts right behind that newline, and a
\* zero-width match follows on a later line
C38_Witness ==
    /\ fPc = "done" /\ ~onlyTitle /\ ~fSt.err /\ ~fSt.panic
    /\ \E k \in 1..(Len(fMatches) - 1) :
          /\ ActualMatchEnd(fText, fMatches[k]) < fMatches[k].e
          /\ fMatches[k + 1].s = fMatches[k].e
    /\ \E k \in 2..Len(fMatches) :
          /\ fMatches[k].s = fMatches[k].e
          /\ Memchr(Slice(fText, ActualMatchEnd(fText, fMatches[k - 1]), fMatches[k].s)) # -1

=============================================================================
